---- MODULE Spec2Model ----
(***************************************************************************)
(* Quality-threshold / expected-value engine of python_backend/main.py,    *)
(* together with the process-wide tables it reads (play_transition_data,   *)
(* in_play_percentage_data) and the game ledgers (game_balances).          *)
(*                                                                         *)
(* Numbers that the program holds as Python floats are IEEE-754 binary64   *)
(* values here: a record [s, e, m] standing for (-1)^s * m * 2^e, with m a *)
(* natural number of exactly 53 bits (or zero), kept as a little-endian    *)
(* sequence of base-2^14 limbs.  Every float operation rounds to nearest,  *)
(* ties to even, as the interpreter's hardware arithmetic does.  Infinities,*)
(* NaNs and subnormals do not arise for the magnitudes of this model.      *)
(***************************************************************************)
EXTENDS Integers, Sequences, FiniteSets, TLC

(***************************************************************************)
(* Natural numbers of arbitrary size: little-endian limbs, no high zeros.  *)
(***************************************************************************)
LimbBits == 14

LimbBase == 16384

MantBits == 53

RECURSIVE Pow2(_)
Pow2(k) == IF k = 0 THEN 1 ELSE 2 * Pow2(k - 1)

RECURSIVE BNorm(_)
BNorm(a) ==
    IF a = <<>> THEN <<>>
    ELSE IF a[Len(a)] = 0 THEN BNorm(SubSeq(a, 1, Len(a) - 1))
    ELSE a

RECURSIVE BFromInt(_)
BFromInt(n) ==
    IF n = 0 THEN <<>>
    ELSE <<n % LimbBase>> \o BFromInt(n \div LimbBase)

RECURSIVE BCmpFrom(_, _, _)
BCmpFrom(a, b, i) ==
    IF i = 0 THEN 0
    ELSE IF a[i] < b[i] THEN -1
    ELSE IF a[i] > b[i] THEN 1
    ELSE BCmpFrom(a, b, i - 1)

BCmp(a, b) ==
    IF Len(a) < Len(b) THEN -1
    ELSE IF Len(a) > Len(b) THEN 1
    ELSE BCmpFrom(a, b, Len(a))

RECURSIVE BAddC(_, _, _)
BAddC(a, b, c) ==
    IF a = <<>> /\ b = <<>> THEN (IF c = 0 THEN <<>> ELSE <<c>>)
    ELSE LET x == IF a = <<>> THEN 0 ELSE Head(a)
             y == IF b = <<>> THEN 0 ELSE Head(b)
             t == x + y + c
         IN  <<t % LimbBase>>
             \o BAddC(IF a = <<>> THEN <<>> ELSE Tail(a),
                      IF b = <<>> THEN <<>> ELSE Tail(b),
                      t \div LimbBase)

BAdd(a, b) == BAddC(a, b, 0)

RECURSIVE BSubC(_, _, _)
BSubC(a, b, c) ==
    IF a = <<>> THEN <<>>
    ELSE LET y == IF b = <<>> THEN 0 ELSE Head(b)
             t == Head(a) - y - c
         IN  <<IF t < 0 THEN t + LimbBase ELSE t>>
             \o BSubC(Tail(a),
                      IF b = <<>> THEN <<>> ELSE Tail(b),
                      IF t < 0 THEN 1 ELSE 0)

\* a - b for a >= b
BSub(a, b) == BNorm(BSubC(a, b, 0))

RECURSIVE BMulSmallC(_, _, _)
BMulSmallC(a, d, c) ==
    IF a = <<>> THEN (IF c = 0 THEN <<>> ELSE <<c>>)
    ELSE LET t == Head(a) * d + c
         IN  <<t % LimbBase>> \o BMulSmallC(Tail(a), d, t \div LimbBase)

\* a * d for 0 <= d < LimbBase
BMulSmall(a, d) == IF d = 0 THEN <<>> ELSE BMulSmallC(a, d, 0)

RECURSIVE BMul(_, _)
BMul(a, b) ==
    IF b = <<>> \/ a = <<>> THEN <<>>
    ELSE LET rest == BMul(a, Tail(b))
         IN  BAdd(BMulSmall(a, Head(b)),
                  IF rest = <<>> THEN <<>> ELSE <<0>> \o rest)

RECURSIVE Zeros(_)
Zeros(n) == IF n = 0 THEN <<>> ELSE <<0>> \o Zeros(n - 1)

\* a * 2^n
BShl(a, n) ==
    IF a = <<>> THEN <<>>
    ELSE Zeros(n \div LimbBits) \o BMulSmall(a, Pow2(n % LimbBits))

RECURSIVE BDivSmallFrom(_, _, _, _)
BDivSmallFrom(a, d, i, r) ==
    IF i = 0 THEN <<>>
    ELSE LET t == r * LimbBase + a[i]
         IN  BDivSmallFrom(a, d, i - 1, t % d) \o <<t \div d>>

\* floor(a / 2^n)
BShr(a, n) ==
    LET k == n \div LimbBits
        d == Pow2(n % LimbBits)
    IN  IF Len(a) <= k THEN <<>>
        ELSE LET hi == SubSeq(a, k + 1, Len(a))
             IN  BNorm(BDivSmallFrom(hi, d, Len(hi), 0))

RECURSIVE IntBitLen(_)
IntBitLen(n) == IF n = 0 THEN 0 ELSE 1 + IntBitLen(n \div 2)

BBitLen(a) ==
    IF a = <<>> THEN 0
    ELSE LimbBits * (Len(a) - 1) + IntBitLen(a[Len(a)])

BIsOdd(a) == a # <<>> /\ a[1] % 2 = 1

\* The largest q <= qhat with q * d <= r.
RECURSIVE BDigitFix(_, _, _)
BDigitFix(r, d, qhat) ==
    IF BCmp(BMulSmall(d, qhat), r) > 0 THEN BDigitFix(r, d, qhat - 1) ELSE qhat

\* floor(r / d) for r < LimbBase * d, where the top limb of d is at least
\* LimbBase / 2 and d has n limbs: the schoolbook estimate from the leading
\* limbs is never too small and at most 2 too large.
BDigit(r, d, n) ==
    LET hi   == IF Len(r) > n THEN r[n + 1] ELSE 0
        lo   == IF Len(r) >= n THEN r[n] ELSE 0
        est  == (hi * LimbBase + lo) \div d[n]
    IN  BDigitFix(r, d, IF est > LimbBase - 1 THEN LimbBase - 1 ELSE est)

\* Long division of r * LimbBase^k by d, one quotient limb per step; q holds
\* the quotient limbs found so far.
RECURSIVE BDivLimbs(_, _, _, _)

\* the step of the long division after its quotient limb dig and the remainder
\* r1 it leaves are known
BDivNext(r1, d, q1, k) ==
    IF k = 0 THEN [q |-> q1, r |-> r1]
    ELSE BDivLimbs(IF r1 = <<>> THEN <<>> ELSE <<0>> \o r1, d, q1, k - 1)

BDivStep(r, d, q, k, dig) ==
    BDivNext(BSub(r, BMulSmall(d, dig)), d, BNorm(<<dig>> \o q), k)

BDivLimbs(r, d, q, k) == BDivStep(r, d, q, k, BDigit(r, d, Len(d)))

QuotLimbs == 4

NormShift == 3

(***************************************************************************)
(* binary64 values and their arithmetic.                                   *)
(***************************************************************************)
FZero == [s |-> 0, e |-> 0, m |-> <<>>]

\* The double nearest to (-1)^s * (m + f) * 2^e, where 0 <= f < 1 and sticky says
\* whether f > 0 (round to nearest, ties to even).
\* k1 is the significand after rounding: one bit too long when it carried
FRoundCarry(s, e, k1) ==
    IF BBitLen(k1) > MantBits
    THEN [s |-> s, e |-> e + 1, m |-> BShr(k1, 1)]
    ELSE [s |-> s, e |-> e, m |-> k1]

\* c compares the d dropped bits with half a unit of the kept ones
FRoundKept(s, e, sticky, kept, c) ==
    FRoundCarry(s, e,
                IF c > 0 \/ (c = 0 /\ (sticky \/ BIsOdd(kept)))
                THEN BAdd(kept, <<1>>) ELSE kept)

FRoundDrop(s, m, e, sticky, d, kept) ==
    FRoundKept(s, e + d, sticky, kept,
               BCmp(BSub(m, BShl(kept, d)), BShl(<<1>>, d - 1)))

\* n is the bit length of m
FRoundBits(s, m, e, sticky, n) ==
    IF n <= MantBits
    THEN [s |-> s, e |-> e - (MantBits - n), m |-> BShl(m, MantBits - n)]
    ELSE FRoundDrop(s, m, e, sticky, n - MantBits, BShr(m, n - MantBits))

FRound(s, m, e, sticky) ==
    IF m = <<>> THEN FZero ELSE FRoundBits(s, m, e, sticky, BBitLen(m))

\* float(n) for an int n
FFromInt(n) ==
    IF n = 0 THEN FZero
    ELSE FRound(IF n < 0 THEN 1 ELSE 0, BFromInt(IF n < 0 THEN -n ELSE n), 0, FALSE)

FNeg(a) == IF a.m = <<>> THEN a ELSE [a EXCEPT !.s = 1 - a.s]

\* abs(a)
FAbs(a) == [a EXCEPT !.s = 0]

\* -1, 0, 1 as a < b, a = b, a > b
FCmpMag(a, b) ==
    IF a.m = <<>> /\ b.m = <<>> THEN 0
    ELSE IF a.m = <<>> THEN -1
    ELSE IF b.m = <<>> THEN 1
    ELSE IF a.e < b.e THEN -1
    ELSE IF a.e > b.e THEN 1
    ELSE BCmp(a.m, b.m)

FCmp(a, b) ==
    IF a.m = <<>> /\ b.m = <<>> THEN 0
    ELSE IF a.m = <<>> THEN (IF b.s = 1 THEN 1 ELSE -1)
    ELSE IF b.m = <<>> THEN (IF a.s = 1 THEN -1 ELSE 1)
    ELSE IF a.s # b.s THEN (IF a.s = 1 THEN -1 ELSE 1)
    ELSE IF a.s = 0 THEN FCmpMag(a, b)
    ELSE FCmpMag(b, a)

FLe(a, b) == FCmp(a, b) <= 0

FLt(a, b) == FCmp(a, b) < 0

\* the signed sum as sign and magnitude: ma, mb are the significands at the
\* common exponent e
FAddMagnitude(sa, sb, ma, mb) ==
    IF sa = sb THEN [s |-> sa, m |-> BAdd(ma, mb)]
    ELSE IF BCmp(ma, mb) >= 0 THEN [s |-> sa, m |-> BSub(ma, mb)]
    ELSE [s |-> sb, m |-> BSub(mb, ma)]

FRoundSum(sum, e) == FRound(sum.s, sum.m, e, FALSE)

FAddAligned(a, b, e) ==
    FRoundSum(FAddMagnitude(a.s, b.s, BShl(a.m, a.e - e), BShl(b.m, b.e - e)), e)

FAdd(a, b) ==
    IF a.m = <<>> THEN b
    ELSE IF b.m = <<>> THEN a
    ELSE FAddAligned(a, b, IF a.e < b.e THEN a.e ELSE b.e)

FMul(a, b) ==
    IF a.m = <<>> \/ b.m = <<>> THEN FZero
    ELSE FRound((a.s + b.s) % 2, BMul(a.m, b.m), a.e + b.e, FALSE)

\* a / b for b # 0
FRoundQuotient(s, qr, e) == FRound(s, qr.q, e, qr.r # <<>>)

FDiv(a, b) ==
    IF a.m = <<>> THEN FZero
    ELSE FRoundQuotient((a.s + b.s) % 2,
                        BDivLimbs(BShl(a.m, NormShift), BShl(b.m, NormShift),
                                  <<>>, QuotLimbs),
                        a.e - b.e - QuotLimbs * LimbBits)

RECURSIVE BToInt(_)
BToInt(a) == IF a = <<>> THEN 0 ELSE Head(a) + LimbBase * BToInt(Tail(a))

\* int(a): the float cut off towards zero
FToInt(a) ==
    IF a.m = <<>> THEN 0
    ELSE (IF a.s = 1 THEN -1 ELSE 1)
         * BToInt(IF a.e < 0 THEN BShr(a.m, -a.e) ELSE BShl(a.m, a.e))

\* float("<n/1000 written in decimal>"): the division of two exactly representable
\* numbers is correctly rounded, as the parse of the decimal is.
Th(n) == FDiv(FFromInt(n), FFromInt(1000))

\* max and min keep the first of equal arguments
FMax2(x, r) == IF FLt(x, r) THEN r ELSE x

FMin2(x, r) == IF FLt(r, x) THEN r ELSE x

RECURSIVE FMaxSeq(_)
FMaxSeq(xs) ==
    IF Len(xs) = 1 THEN xs[1]
    ELSE FMax2(xs[1], FMaxSeq(Tail(xs)))

RECURSIVE FMinSeq(_)
FMinSeq(xs) ==
    IF Len(xs) = 1 THEN xs[1]
    ELSE FMin2(xs[1], FMinSeq(Tail(xs)))

\* list.sort / sorted: a stable ascending sort (insertion after the equal elements)
RECURSIVE FInsertAsc(_, _)
FInsertAsc(xs, v) ==
    IF xs = <<>> THEN <<v>>
    ELSE IF FLt(v, xs[1]) THEN <<v>> \o xs
    ELSE <<xs[1]>> \o FInsertAsc(Tail(xs), v)

RECURSIVE FSortedFrom(_, _, _)
FSortedFrom(xs, i, acc) ==
    IF i > Len(xs) THEN acc ELSE FSortedFrom(xs, i + 1, FInsertAsc(acc, xs[i]))

sorted(xs) == FSortedFrom(xs, 1, <<>>)

(***************************************************************************)
(* Python values.                                                          *)
(***************************************************************************)
\* None is unlike every other value: a record no other value shares a field with
None == [none |-> TRUE]

\* pd.DataFrame: the sequence of its rows
DataFrame(rows) == [rows |-> rows]

EmptyDict == <<>>

\* d.get(k, default)
DictGet(d, k, default) == IF k \in DOMAIN d THEN d[k] ELSE default

RECURSIVE Map(_, _)
Map(F(_), xs) == IF xs = <<>> THEN <<>> ELSE <<F(xs[1])>> \o Map(F, Tail(xs))

BaseNames == <<"first", "second", "third">>

\* sum(1 for base in ['first', 'second', 'third'] if d.get(base, False))
CountRunners(d) ==
    Cardinality({i \in 1..3 : DictGet(d, BaseNames[i], FALSE)})

(***************************************************************************)
(* The Outcome Table: the rows of play_transition_value.csv as read and    *)
(* parsed by load_play_transition_data.                                    *)
(***************************************************************************)
\* bool(int(part)) for each part of '(0, 1, 0)'
parse_base_state(base) == <<base[1] # 0, base[2] # 0, base[3] # 0>>

ParseCsvRow(r) ==
    [start_base_parsed |-> parse_base_state(r.start_base),
     end_base_parsed   |-> parse_base_state(r.end_base),
     start_outs        |-> r.start_outs,
     runs_scored       |-> r.runs_scored,
     outs              |-> r.outs,
     norm_value        |-> Th(r.norm_value),
     value             |-> Th(r.value)]

DefaultProbability == Th(100)

RowToOutcome(row) ==
    [runsScored  |-> row.runs_scored,
     outsGained  |-> row.outs,
     normValue   |-> row.norm_value,
     value       |-> row.value,
     finalBases  |-> [first  |-> row.end_base_parsed[1],
                      second |-> row.end_base_parsed[2],
                      third  |-> row.end_base_parsed[3]],
     probability |-> DefaultProbability]

\* the lookup with the start_outs test left out
OutcomesForBasesOnly(data, bases, outs) ==
    IF data = None THEN <<>>
    ELSE LET base_tuple == <<DictGet(bases, "first", FALSE),
                             DictGet(bases, "second", FALSE),
                             DictGet(bases, "third", FALSE)>>
             Matches(row) == row.start_base_parsed = base_tuple
         IN  Map(RowToOutcome, SelectSeq(data.rows, Matches))

\* the lookup with the start_base_parsed test left out
OutcomesForOutsOnly(data, bases, outs) ==
    IF data = None THEN <<>>
    ELSE LET Matches(row) == row.start_outs = outs
         IN  Map(RowToOutcome, SelectSeq(data.rows, Matches))

get_play_outcomes_for_base_state(data, bases, outs) ==
    IF data = None THEN <<>>
    ELSE LET base_tuple == <<DictGet(bases, "first", FALSE),
                             DictGet(bases, "second", FALSE),
                             DictGet(bases, "third", FALSE)>>
             Matches(row) == row.start_base_parsed = base_tuple /\ row.start_outs = outs
         IN  Map(RowToOutcome, SelectSeq(data.rows, Matches))

(***************************************************************************)
(* Threshold Calculator.  The percentile markers and the five display      *)
(* strings of the returned dict are diagnostic and are left out.           *)
(***************************************************************************)
NormValueOf(o) == o.normValue

FMinusOne == FFromInt(-1)

FOne == FFromInt(1)

BadMinStep == Th(1)

DefaultNeutralMax == FZero

DefaultGoodMin == FNeg(Th(500))

\* the out-without-run test taken over the double plays only
IsTwoOutNoRun(o) == o.outsGained >= 2 /\ o.runsScored = 0

IsOutNoRun(o) == o.outsGained > 0 /\ o.runsScored = 0

IsOneOutNoRun(o) == o.outsGained = 1 /\ o.runsScored = 0

IsDoublePlay(o) == o.outsGained >= 2 /\ o.runsScored = 0

IsNoOutNoRun(o) == o.outsGained = 0 /\ o.runsScored = 0

IsNeutralCandidate(o) == o.outsGained <= 1 /\ o.runsScored <= 1

IsNoOut(o) == o.outsGained = 0

\* the good candidates without the two no-out patterns
IsRunWithAtMostOneOut(o) == o.runsScored >= 1 /\ o.outsGained <= 1

IsGoodCandidate(o) ==
    IF o.runsScored >= 1 /\ o.outsGained <= 1 THEN TRUE
    ELSE IF o.outsGained = 0
         THEN (IF o.finalBases.first THEN TRUE ELSE o.runsScored = 0)
    ELSE FALSE

\* the good-max exclusions with a triple taken only when second was empty and
\* first is empty in the final state
IsExcludedWhenBothHold(bases, o) ==
    LET initial_runners == CountRunners(bases)
        final_runners   == CountRunners(o.finalBases)
    IN  IF final_runners = 0 /\ o.runsScored > initial_runners THEN TRUE
        ELSE IF ~ DictGet(bases, "third", FALSE) /\ o.finalBases.third
             THEN ~ DictGet(bases, "second", FALSE) /\ ~ o.finalBases.first
        ELSE FALSE

\* the two `continue`s of the good-max loop: home-run-like and triple-like
IsExcludedFromGoodMax(bases, o) ==
    LET initial_runners == CountRunners(bases)
        final_runners   == CountRunners(o.finalBases)
    IN  IF final_runners = 0 /\ o.runsScored > initial_runners THEN TRUE
        ELSE IF ~ DictGet(bases, "third", FALSE) /\ o.finalBases.third
             THEN (IF ~ DictGet(bases, "second", FALSE) THEN TRUE
                   ELSE ~ o.finalBases.first)
        ELSE FALSE

\* the very-good outcomes without the clean triple
IsRunScored(bases, o) == o.runsScored >= 1

IsVeryGoodValid(bases, o) ==
    IF o.runsScored >= 1 THEN TRUE
    ELSE IF o.finalBases.third /\ ~ o.finalBases.first /\ ~ o.finalBases.second
         THEN (IF ~ DictGet(bases, "third", FALSE)
               THEN CountRunners(bases) = 0 \/ o.runsScored = CountRunners(bases)
               ELSE FALSE)
    ELSE FALSE

MaxNormOr(os, default) ==
    IF os = <<>> THEN default ELSE FMaxSeq(Map(NormValueOf, os))

MinNormOr(os, default) ==
    IF os = <<>> THEN default ELSE FMinSeq(Map(NormValueOf, os))

\* the index of the lower of the two middle elements of an even count
LowerMedianIndex(n) == (n - 1) \div 2

\* median_index = len(neutral_norms) // 2
MedianIndex(n) == n \div 2

\* max_no_outs_no_runs_value without the fallback to the neutral candidates
MaxNoOutsNoRunsOrDefault(all_outcomes) ==
    MaxNormOr(SelectSeq(all_outcomes, IsNoOutNoRun), DefaultNeutralMax)

MaxNoOutsNoRunsValue(all_outcomes) ==
    LET outcomes_no_outs_no_runs == SelectSeq(all_outcomes, IsNoOutNoRun)
        neutral_candidates       == SelectSeq(all_outcomes, IsNeutralCandidate)
        neutral_norms            == sorted(Map(NormValueOf, neutral_candidates))
        median_index             == MedianIndex(Len(neutral_norms))
    IN  IF outcomes_no_outs_no_runs # <<>>
        THEN FMaxSeq(Map(NormValueOf, outcomes_no_outs_no_runs))
        ELSE IF neutral_candidates # <<>> THEN neutral_norms[median_index + 1]
        ELSE DefaultNeutralMax

GoodMinValue(all_outcomes) ==
    LET outcomes_good_candidates == SelectSeq(all_outcomes, IsGoodCandidate)
    IN  IF outcomes_good_candidates # <<>>
        THEN FMinSeq(Map(NormValueOf, outcomes_good_candidates))
        ELSE MinNormOr(SelectSeq(all_outcomes, IsNoOut), DefaultGoodMin)

GoodMaxValue(bases, all_outcomes) ==
    LET Kept(o) == ~ IsExcludedFromGoodMax(bases, o)
    IN  MaxNormOr(SelectSeq(all_outcomes, Kept), FMinusOne)

VeryGoodMinValue(bases, all_outcomes) ==
    LET Valid(o) == IsVeryGoodValid(bases, o)
    IN  MinNormOr(SelectSeq(SelectSeq(all_outcomes, IsNoOut), Valid), FOne)

\* bad_min_value without the two-out special case
BadMinAllOuts(outs, max_out_no_run_value, bad_min_value) == bad_min_value

\* "Special case: when there are 2 outs": the override of bad_min_value
TwoOutBadMin(outs, max_out_no_run_value, bad_min_value) ==
    IF outs = 2 THEN max_out_no_run_value ELSE bad_min_value

\* "Special case: when there are 2 outs": the override of max_one_out_no_run_value
TwoOutMaxOneOut(outs, max_out_no_run_value, max_one_out_no_run_value) ==
    IF outs = 2 THEN max_out_no_run_value ELSE max_one_out_no_run_value

\* bad min with -1 standing for "no double play", as it does for the other maxima
BadMinValueWithSentinel(max_double_play_value, min_one_out_no_run_value) ==
    IF max_double_play_value # None /\ max_double_play_value # FMinusOne
    THEN FAdd(max_double_play_value, BadMinStep)
    ELSE min_one_out_no_run_value

\* "Determine bad min based on double play possibility"
BadMinValue(max_double_play_value, min_one_out_no_run_value) ==
    IF max_double_play_value # None
    THEN FAdd(max_double_play_value, BadMinStep)
    ELSE min_one_out_no_run_value

\* the returned dict, from the values computed over all_outcomes
Thresholds(bases, outs, all_outcomes, max_out_no_run_value, max_one_out_no_run_value, min_one_out_no_run_value, max_double_play_value) ==
    [thresholds |->
       [maxOutNoRun     |-> max_out_no_run_value,
        badMin          |-> TwoOutBadMin(outs, max_out_no_run_value,
                                         BadMinValue(max_double_play_value,
                                                     min_one_out_no_run_value)),
        maxOneOutNoRun  |-> TwoOutMaxOneOut(outs, max_out_no_run_value,
                                            max_one_out_no_run_value),
        minOneOutNoRun  |-> min_one_out_no_run_value,
        maxNoOutsNoRuns |-> MaxNoOutsNoRunsValue(all_outcomes),
        goodMin         |-> GoodMinValue(all_outcomes),
        goodMax         |-> GoodMaxValue(bases, all_outcomes),
        veryGoodMin     |-> VeryGoodMinValue(bases, all_outcomes),
        veryGoodMax     |-> FOne,
        hasDoublePlay   |-> max_double_play_value # None]]

\* the function after its lookup of all_outcomes
ThresholdsOfOutcomes(bases, outs, all_outcomes) ==
    IF all_outcomes = <<>> THEN None
    ELSE Thresholds(bases, outs, all_outcomes,
                    MaxNormOr(SelectSeq(all_outcomes, IsOutNoRun), FMinusOne),
                    MaxNormOr(SelectSeq(all_outcomes, IsOneOutNoRun), FMinusOne),
                    MinNormOr(SelectSeq(all_outcomes, IsOneOutNoRun), FMinusOne),
                    MaxNormOr(SelectSeq(all_outcomes, IsDoublePlay), None))

calculate_quality_thresholds(data, game_state) ==
    LET bases == DictGet(game_state, "bases", EmptyDict)
        outs  == DictGet(game_state, "outs", 0)
    IN  ThresholdsOfOutcomes(bases, outs,
                             get_play_outcomes_for_base_state(data, bases, outs))

(***************************************************************************)
(* Quality Filter.                                                         *)
(***************************************************************************)
MaxOptions == 10

\* list.sort(key=normValue) without reverse=True
RECURSIVE InsertByNormAsc(_, _)
InsertByNormAsc(os, o) ==
    IF os = <<>> THEN <<o>>
    ELSE IF FLt(o.normValue, os[1].normValue) THEN <<o>> \o os
    ELSE <<os[1]>> \o InsertByNormAsc(Tail(os), o)

\* list.sort(key=normValue, reverse=True): stable, so equal keys keep their order
RECURSIVE InsertByNormDesc(_, _)
InsertByNormDesc(os, o) ==
    IF os = <<>> THEN <<o>>
    ELSE IF FLt(os[1].normValue, o.normValue) THEN <<o>> \o os
    ELSE <<os[1]>> \o InsertByNormDesc(Tail(os), o)

RECURSIVE SortByNormDescFrom(_, _, _)
SortByNormDescFrom(os, i, acc) ==
    IF i > Len(os) THEN acc
    ELSE SortByNormDescFrom(os, i + 1, InsertByNormDesc(acc, os[i]))

SortByNormDesc(os) == SortByNormDescFrom(os, 1, <<>>)

\* xs[:n]
Take(xs, n) == SubSeq(xs, 1, IF Len(xs) < n THEN Len(xs) ELSE n)

InBand(quality, thresholds, norm_value) ==
    IF quality = "very-bad"
    THEN FLe(FMinusOne, norm_value) /\ FLe(norm_value, thresholds.maxOutNoRun)
    ELSE IF quality = "bad"
    THEN FLe(thresholds.badMin, norm_value) /\ FLe(norm_value, thresholds.maxOneOutNoRun)
    ELSE IF quality = "neutral"
    THEN FLe(thresholds.minOneOutNoRun, norm_value)
         /\ FLe(norm_value, thresholds.maxNoOutsNoRuns)
    ELSE IF quality = "good"
    THEN FLe(thresholds.goodMin, norm_value) /\ FLe(norm_value, thresholds.goodMax)
    ELSE IF quality = "very-good"
    THEN FLe(thresholds.veryGoodMin, norm_value)
         /\ FLe(norm_value, thresholds.veryGoodMax)
    ELSE TRUE

\* the filter, sort and cut over all_outcomes with the thresholds in ranges
OptionsInRanges(quality, all_outcomes, ranges) ==
    IF ranges = None THEN <<>>
    ELSE Take(SortByNormDesc(
                 SelectSeq(all_outcomes,
                           LAMBDA o : InBand(quality, ranges.thresholds, o.normValue))),
              MaxOptions)

\* the function after its lookup of all_outcomes
OptionsOfOutcomes(data, quality, game_state, all_outcomes) ==
    IF all_outcomes = <<>> THEN <<>>
    ELSE OptionsInRanges(quality, all_outcomes,
                         calculate_quality_thresholds(data, game_state))

get_play_options_by_quality(data, quality, game_state) ==
    LET bases == DictGet(game_state, "bases", EmptyDict)
        outs  == DictGet(game_state, "outs", 0)
    IN  OptionsOfOutcomes(data, quality, game_state,
                          get_play_outcomes_for_base_state(data, bases, outs))

(***************************************************************************)
(* Expected Value Engine.  A key of filtered_in_play.json is the text of a *)
(* tuple of ints, "(0, 1, 0)" or "((0, 0, 0), 0, 2)"; the tuple itself     *)
(* stands for the text.  A probability is a double, or None for a json     *)
(* null.  The outcome_details and summary of the result are derived from   *)
(* the annotated outcomes, which the result carries here as 'outcomes'.    *)
(***************************************************************************)
\* int(b) of a bool
BoolInt(b) == IF b THEN 1 ELSE 0

\* f"({int(d.get('first', False))}, {int(d.get('second', False))}, {int(d.get('third', False))})"
BaseKey(d) ==
    <<BoolInt(DictGet(d, "first", FALSE)), BoolInt(DictGet(d, "second", FALSE)),
      BoolInt(DictGet(d, "third", FALSE))>>

\* f"(({..end_bases..}), {runs_scored}, {outs_gained})"
OutcomeKey(outcome) ==
    <<BaseKey(DictGet(outcome, "finalBases", DictGet(outcome, "endBase", EmptyDict))),
      DictGet(outcome, "runsScored", 0), DictGet(outcome, "outsGained", 0)>>

get_real_probability_for_outcome(probs, game_state, outcome) ==
    LET fallback         == DictGet(outcome, "probability", DefaultProbability)
        bases            == DictGet(game_state, "bases", EmptyDict)
        initial_base_key == BaseKey(bases)
        outcome_key      == OutcomeKey(outcome)
    IN  IF DOMAIN probs = {} THEN fallback
        ELSE IF initial_base_key \notin DOMAIN probs THEN fallback
        ELSE IF outcome_key \in DOMAIN probs[initial_base_key]
             THEN probs[initial_base_key][outcome_key]
        ELSE fallback

\* an exception on its way up the stack
Raise(e) == [raise |-> e]

IsRaise(v) == DOMAIN v = {"raise"}

\* acc + x of Python numbers, where x may be None
PyAdd(acc, x, acc_type) ==
    IF IsRaise(acc) THEN acc
    ELSE IF x = None
         THEN Raise("unsupported operand type(s) for +: '" \o acc_type
                    \o "' and 'NoneType'")
    ELSE FAdd(acc, x)

\* sum(xs): starts from the int 0 and adds from the left
RECURSIVE SumFrom(_, _, _)
SumFrom(xs, i, acc) ==
    IF i > Len(xs) THEN acc
    ELSE SumFrom(xs, i + 1, PyAdd(acc, xs[i], IF i = 1 THEN "int" ELSE "float"))

sum(xs) == SumFrom(xs, 1, FZero)

RawProbabilityOf(o) == o.raw_real_probability

\* outcome['raw_real_probability'] = real_probability
SetRawProbability(probs, game_state, outcomes) ==
    Map(LAMBDA o : o @@ ("raw_real_probability" :>
                            get_real_probability_for_outcome(probs, game_state, o)),
        outcomes)

\* the raw probability taken as the weight
UnnormalizedProbability(raw_prob, total_raw_probability) == raw_prob

\* raw_prob / total_raw_probability
NormalizedProbability(raw_prob, total_raw_probability) ==
    FDiv(raw_prob, total_raw_probability)

\* outcome['normalized_probability'] = raw_prob / total_raw_probability
SetNormalizedProbability(outcomes, total_raw_probability) ==
    Map(LAMBDA o : o @@ ("normalized_probability" :>
                            NormalizedProbability(o.raw_real_probability,
                                                  total_raw_probability)),
        outcomes)

\* norm_value = outcome.get('normValue', 0), which the sum does not use
RunValueNorm(o) == DictGet(o, "normValue", FZero)

\* run_value = outcome.get('value', 0)
RunValue(o) == DictGet(o, "value", FZero)

\* normalized_probability * run_value
WeightedContribution(o) == FMul(o.normalized_probability, RunValue(o))

\* weighted_value_sum = 0.0, then += weighted_contribution for each outcome
RECURSIVE WeightedValueSumFrom(_, _, _)
WeightedValueSumFrom(outcomes, i, acc) ==
    IF i > Len(outcomes) THEN acc
    ELSE WeightedValueSumFrom(outcomes, i + 1,
                              FAdd(acc, WeightedContribution(outcomes[i])))

NoOutcomesResult(quality) ==
    [expected_value |-> FZero, total_outcomes |-> 0, quality |-> quality,
     error |-> "No outcomes found for this quality"]

NoProbabilityResult(quality, total_outcomes) ==
    [expected_value |-> FZero, total_outcomes |-> total_outcomes,
     quality |-> quality, error |-> "No real probability data available"]

\* the handler's body without its except clause
Reraise(quality, e) == Raise(e)

\* except Exception as e
CalculationFailedResult(quality, e) ==
    [expected_value |-> FZero, total_outcomes |-> 0, quality |-> quality,
     error |-> "Calculation failed: " \o e]

\* the success result, from the outcomes with their normalized probabilities
ExpectedValueResult(probs, quality, total_raw_probability, outcomes) ==
    [expected_value        |-> WeightedValueSumFrom(outcomes, 1, FZero),
     total_outcomes        |-> Len(outcomes),
     quality               |-> quality,
     total_raw_probability |-> total_raw_probability,
     data_source           |-> IF DOMAIN probs # {}
                               THEN "filtered_in_play.json"
                               ELSE "synthetic",
     outcomes              |-> outcomes]

\* the handler from the sum of the raw probabilities on
ExpectedValueOfTotal(probs, quality, outcomes, total_raw_probability) ==
    IF IsRaise(total_raw_probability)
    THEN CalculationFailedResult(quality, total_raw_probability.raise)
    ELSE IF total_raw_probability = FZero
    THEN NoProbabilityResult(quality, Len(outcomes))
    ELSE ExpectedValueResult(probs, quality, total_raw_probability,
                             SetNormalizedProbability(outcomes,
                                                      total_raw_probability))

\* the handler from the outcomes with their raw probabilities on
ExpectedValueOfOutcomes(probs, quality, outcomes) ==
    ExpectedValueOfTotal(probs, quality, outcomes,
                         sum(Map(RawProbabilityOf, outcomes)))

\* the handler after its call of get_play_options_by_quality
ExpectedValueOfOptions(probs, quality, game_state, options) ==
    IF options = <<>> THEN NoOutcomesResult(quality)
    ELSE ExpectedValueOfOutcomes(probs, quality,
                                 SetRawProbability(probs, game_state, options))

calculate_expected_value_for_quality(data, probs, quality, game_state) ==
    ExpectedValueOfOptions(probs, quality, game_state,
                           get_play_options_by_quality(data, quality, game_state))

(***************************************************************************)
(* Game ledgers.  The amounts that the error and log texts format are left *)
(* out of the texts.                                                       *)
(***************************************************************************)
NewLedger ==
    [balance           |-> FFromInt(1000),
     contracts         |-> [home |-> 0, away |-> 0],
     history           |-> <<>>,
     total_invested    |-> FZero,
     total_profit_loss |-> FZero]

\* the ledger assigned without the `not in game_balances` test
BalancesResettingGame(balances, game_id) ==
    (game_id :> NewLedger) @@ balances

\* game_balances after initialize_game_balance(game_id)
BalancesWithGame(balances, game_id) ==
    IF game_id \in DOMAIN balances THEN balances
    ELSE (game_id :> NewLedger) @@ balances

\* "Assume avg buy price of $0.60"
AssumedBuyPrice == Th(600)

\* a - b of two floats
FSub(a, b) == FAdd(a, FNeg(b))

\* what a call that changes nothing returns
Refused(game_data, error) ==
    [ledger |-> game_data,
     result |-> [success |-> FALSE, error |-> error,
                 balance |-> game_data.balance,
                 contracts |-> game_data.contracts]]

\* the ledger after a transaction, and what the call returns
Executed(game_data, balance, contracts, transaction, invested, profit, result) ==
    [ledger |-> [game_data EXCEPT
                   !.balance = balance,
                   !.contracts = contracts,
                   !.total_invested = FAdd(@, invested),
                   !.total_profit_loss = FAdd(@, profit),
                   !.history = Append(@, transaction)],
     result |-> result @@ [success |-> TRUE, balance |-> balance,
                           contracts |-> contracts, transaction |-> transaction]]

BuyExecuted(game_data, team, shares, price_per_share, reason, total_cost, balance) ==
    Executed(game_data, balance,
             [game_data.contracts EXCEPT ![team] = @ + shares],
             [action |-> "BUY", team |-> team, shares |-> shares,
              price_per_share |-> price_per_share, total_cost |-> total_cost,
              reason |-> reason, timestamp |-> "now", balance_after |-> balance],
             total_cost, FZero,
             [action |-> "BUY", team |-> team, shares |-> shares,
              total_cost |-> total_cost])

\* the buy without its balance check
BuyOnCredit(game_data, team, shares, price_per_share, reason, total_cost) ==
    BuyExecuted(game_data, team, shares, price_per_share, reason, total_cost,
                FSub(game_data.balance, total_cost))

BuyAtCost(game_data, team, shares, price_per_share, reason, total_cost) ==
    IF FLt(game_data.balance, total_cost)
    THEN Refused(game_data, "Insufficient balance")
    ELSE BuyExecuted(game_data, team, shares, price_per_share, reason, total_cost,
                     FSub(game_data.balance, total_cost))

Buy(game_data, team, shares, price_per_share, reason) ==
    BuyAtCost(game_data, team, shares, price_per_share, reason,
              FMul(FFromInt(shares), price_per_share))

\* the sale that pays out and leaves the holding as it was
SellKeepingHolding(game_data, team, price_per_share, reason, shares_to_sell, total_proceeds, balance) ==
    Executed(game_data, balance,
             game_data.contracts,
             [action |-> "SELL", team |-> team, shares |-> shares_to_sell,
              price_per_share |-> price_per_share,
              total_cost |-> FNeg(total_proceeds),
              reason |-> "Sell all " \o team \o " contracts: " \o reason,
              timestamp |-> "now", balance_after |-> balance],
             FZero,
             FSub(total_proceeds, FMul(FFromInt(shares_to_sell), AssumedBuyPrice)),
             [action |-> "SELL", team |-> team, shares |-> shares_to_sell,
              total_proceeds |-> total_proceeds])

SellExecuted(game_data, team, price_per_share, reason, shares_to_sell, total_proceeds, balance) ==
    Executed(game_data, balance,
             [game_data.contracts EXCEPT ![team] = 0],
             [action |-> "SELL", team |-> team, shares |-> shares_to_sell,
              price_per_share |-> price_per_share,
              total_cost |-> FNeg(total_proceeds),
              reason |-> "Sell all " \o team \o " contracts: " \o reason,
              timestamp |-> "now", balance_after |-> balance],
             FZero,
             FSub(total_proceeds, FMul(FFromInt(shares_to_sell), AssumedBuyPrice)),
             [action |-> "SELL", team |-> team, shares |-> shares_to_sell,
              total_proceeds |-> total_proceeds])

SellForProceeds(game_data, team, price_per_share, reason, total_proceeds) ==
    SellExecuted(game_data, team, price_per_share, reason,
                 game_data.contracts[team], total_proceeds,
                 FAdd(game_data.balance, total_proceeds))

Sell(game_data, team, price_per_share, reason) ==
    IF game_data.contracts[team] <= 0
    THEN Refused(game_data, "No contracts to sell")
    ELSE SellForProceeds(game_data, team, price_per_share, reason,
                         FMul(FFromInt(game_data.contracts[team]), price_per_share))

Transact(game_data, action, team, shares, price_per_share, reason) ==
    IF action = "BUY" THEN Buy(game_data, team, shares, price_per_share, reason)
    ELSE IF action = "SELL" THEN Sell(game_data, team, price_per_share, reason)
    ELSE Refused(game_data, "Invalid action")

(***************************************************************************)
(* Contract decisions.  Of a request, the fields the decision reads are    *)
(* kept; the numbers that the reasoning texts format are left out of the   *)
(* texts; inning_factor is computed and never read, and is left out.       *)
(***************************************************************************)
IntMin(a, b) == IF b < a THEN b ELSE a

IntMax(a, b) == IF b > a THEN b ELSE a

\* the key of win_percentage_data for a game state
WinKey(game_state) ==
    <<game_state.inning, BoolInt(game_state.isTopOfInning), game_state.outs,
      BoolInt(game_state.bases.first), BoolInt(game_state.bases.second),
      BoolInt(game_state.bases.third),
      game_state.homeScore - game_state.awayScore,
      game_state.balls, game_state.strikes>>

get_home_team_win_percentage(win_data, game_state) ==
    IF WinKey(game_state) \in DOMAIN win_data
    THEN win_data[WinKey(game_state)].home_win_pct
    ELSE None

\* one parsed line of the stats file added to the table
WinLineInto(table, line) ==
    IF line.total_games <= 0 THEN table
    ELSE LET batting_team_win_pct == FDiv(FFromInt(line.wins),
                                          FFromInt(line.total_games))
             key == <<line.inning, line.is_top, line.outs, line.bases[1],
                      line.bases[2], line.bases[3], line.score_diff,
                      line.balls, line.strikes>>
         IN  (key :> [home_win_pct |-> IF line.is_top # 0
                                       THEN FSub(FOne, batting_team_win_pct)
                                       ELSE batting_team_win_pct,
                      batting_team_win_pct |-> batting_team_win_pct,
                      total_games |-> line.total_games])
             @@ table

RECURSIVE WinTableFrom(_, _, _)
WinTableFrom(lines, i, table) ==
    IF i > Len(lines) THEN table
    ELSE WinTableFrom(lines, i + 1, WinLineInto(table, lines[i]))

NewDecision ==
    [should_order |-> FALSE, team |-> None, confidence |-> FZero, size |-> 0,
     reasoning |-> <<>>, risk_level |-> "none", transactions |-> <<>>]

BattingTeam(game_state) == IF game_state.isTopOfInning THEN "away" ELSE "home"

FieldingTeam(game_state) == IF game_state.isTopOfInning THEN "home" ELSE "away"

RunnersInScoring(game_state) == game_state.bases.second \/ game_state.bases.third

HighLeverage(game_state) == game_state.outs >= 2 /\ RunnersInScoring(game_state)

LateInning(game_state) == game_state.inning >= 7

CloseGame(game_state) ==
    LET score_diff == game_state.homeScore - game_state.awayScore
    IN  (IF score_diff < 0 THEN -score_diff ELSE score_diff) <= 2

BasesLoaded(game_state) ==
    game_state.bases.first /\ game_state.bases.second /\ game_state.bases.third

\* decision["size"] and decision["risk_level"] from base_size
SizedDecision(decision, base_size, max_risk_size, risk_bound, low, high) ==
    [decision EXCEPT !.size = IntMin(base_size, max_risk_size),
                     !.risk_level = IF base_size <= risk_bound THEN low ELSE high]

\* "High impact positive play for batting team"
ExcellentPlayDecision(request, game_state, confidence) ==
    SizedDecision(
        [NewDecision EXCEPT
           !.should_order = TRUE,
           !.team = BattingTeam(game_state),
           !.confidence = confidence,
           !.reasoning =
              <<"Excellent play outcome favors " \o BattingTeam(game_state) \o " team">>
              \o (IF HighLeverage(game_state)
                  THEN <<"High leverage situation - increased position">> ELSE <<>>)
              \o (IF LateInning(game_state) /\ CloseGame(game_state)
                  THEN <<"Late inning close game - increased position">> ELSE <<>>)],
        FToInt(FMul(confidence, FFromInt(5)))
           + (IF HighLeverage(game_state) THEN 2 ELSE 0)
           + (IF LateInning(game_state) /\ CloseGame(game_state) THEN 2 ELSE 0),
        request.maxRiskSize, 3, "medium", "high")

\* "High impact negative play against batting team"
PoorPlayDecision(request, game_state, confidence) ==
    SizedDecision(
        [NewDecision EXCEPT
           !.should_order = TRUE,
           !.team = FieldingTeam(game_state),
           !.confidence = confidence,
           !.reasoning =
              <<"Poor play outcome favors " \o FieldingTeam(game_state) \o " team">>
              \o (IF HighLeverage(game_state)
                  THEN <<"High leverage defensive play">> ELSE <<>>)],
        FToInt(FMul(confidence, FFromInt(4)))
           + (IF HighLeverage(game_state) THEN 1 ELSE 0),
        request.maxRiskSize, 2, "low", "medium")

\* "Game state-based decisions (without specific play outcome)"
GameStateDecision(game_state) ==
    IF HighLeverage(game_state) /\ LateInning(game_state) /\ CloseGame(game_state)
    THEN (IF ~ game_state.isTopOfInning
          THEN [NewDecision EXCEPT
                  !.should_order = TRUE, !.team = "home",
                  !.confidence = Th(600), !.size = 2,
                  !.reasoning = <<"High leverage late inning - home field advantage">>,
                  !.risk_level = "low"]
          ELSE NewDecision)
    ELSE IF BasesLoaded(game_state) /\ game_state.outs <= 1
    THEN [NewDecision EXCEPT
            !.should_order = TRUE, !.team = BattingTeam(game_state),
            !.confidence = Th(700), !.size = 3,
            !.reasoning = <<"Bases loaded with outs remaining - high scoring potential">>,
            !.risk_level = "medium"]
    ELSE NewDecision

\* the decision before the win percentage is looked at
PlayDecision(request, game_state, play_outcome) ==
    IF play_outcome # None /\ play_outcome.normValue # None
    THEN (IF FLe(Th(800), play_outcome.normValue)
          THEN ExcellentPlayDecision(request, game_state,
                                     FMin2(play_outcome.normValue, FOne))
          ELSE IF FLe(play_outcome.normValue, FNeg(Th(800)))
          THEN PoorPlayDecision(request, game_state,
                                FMin2([play_outcome.normValue EXCEPT !.s = 0], FOne))
          ELSE NewDecision)
    ELSE GameStateDecision(game_state)

Reduced(decision, reason) ==
    [decision EXCEPT !.size = IntMax(1, @ - 2), !.reasoning = Append(@, reason)]

Increased(decision, max_risk_size, reason) ==
    [decision EXCEPT !.size = IntMin(@ + 1, max_risk_size),
                     !.reasoning = Append(@, reason)]

\* "Factor win percentage into decisions", for a decision that orders
WinPctAdjusted(decision, max_risk_size, home_win_pct) ==
    IF decision.team = "home" /\ FLt(home_win_pct, Th(300))
    THEN Reduced(decision, "Reduced position due to low historical win probability")
    ELSE IF decision.team = "away" /\ FLt(Th(700), home_win_pct)
    THEN Reduced(decision,
                 "Reduced position due to unfavorable historical win probability")
    ELSE IF decision.team = "home" /\ FLt(Th(600), home_win_pct)
    THEN Increased(decision, max_risk_size,
                   "Increased position due to favorable historical win probability")
    ELSE IF decision.team = "away" /\ FLt(home_win_pct, Th(400))
    THEN Increased(decision, max_risk_size,
                   "Increased position due to favorable historical win probability")
    ELSE decision

\* "Create new orders based purely on win probability if no play-based decision"
WinPctOrder(decision, game_state, home_win_pct) ==
    IF FLt(Th(800), home_win_pct) /\ CloseGame(game_state) /\ LateInning(game_state)
    THEN [decision EXCEPT
            !.should_order = TRUE, !.team = "home",
            !.confidence = FMin2(home_win_pct, Th(900)), !.size = 2,
            !.risk_level = "low",
            !.reasoning =
               Append(@, "Strong historical home team advantage in late close game")]
    ELSE IF FLt(home_win_pct, Th(200)) /\ CloseGame(game_state)
            /\ LateInning(game_state)
    THEN [decision EXCEPT
            !.should_order = TRUE, !.team = "away",
            !.confidence = FMin2(FSub(FOne, home_win_pct), Th(900)), !.size = 2,
            !.risk_level = "low",
            !.reasoning =
               Append(@, "Strong historical away team advantage in late close game")]
    ELSE decision

\* "Add win percentage analysis"
WinPctDecision(decision, request, game_state, home_win_pct) ==
    IF home_win_pct = None
    THEN [decision EXCEPT
            !.reasoning = Append(@, "No historical data available for this situation")]
    ELSE IF decision.should_order
    THEN WinPctAdjusted([decision EXCEPT
                           !.reasoning = Append(@, "Historical win probability")],
                        request.maxRiskSize, home_win_pct)
    ELSE WinPctOrder([decision EXCEPT
                        !.reasoning = Append(@, "Historical win probability")],
                     game_state, home_win_pct)

\* "Add market price considerations if available"
MarketDecision(decision, request) ==
    IF DictGet(request, "marketPrices", None) # None
    THEN [decision EXCEPT
            !.reasoning = Append(@, "Market prices considered in decision")]
    ELSE decision

\* "; ".join(reasoning)
RECURSIVE Joined(_)
Joined(reasoning) ==
    IF reasoning = <<>> THEN ""
    ELSE IF Len(reasoning) = 1 THEN reasoning[1]
    ELSE reasoning[1] \o "; " \o Joined(Tail(reasoning))

DefaultTradePrice == Th(600)

\* the order with its transactions, withdrawn when the balance does not cover it
OrderWithTransactions(decision, opposing_team, current_balance_data, reasoning) ==
    IF FLt(IF current_balance_data.contracts[opposing_team] > 0
           THEN FAdd(current_balance_data.balance,
                     FMul(FFromInt(current_balance_data.contracts[opposing_team]),
                          DefaultTradePrice))
           ELSE current_balance_data.balance,
           FMul(FFromInt(decision.size), DefaultTradePrice))
    THEN [decision EXCEPT
            !.reasoning = Append(reasoning, "Insufficient balance"),
            !.should_order = FALSE,
            !.transactions = <<>>]
    ELSE [decision EXCEPT
            !.reasoning = reasoning,
            !.transactions =
               (IF current_balance_data.contracts[opposing_team] > 0
                THEN <<[action |-> "SELL", team |-> opposing_team,
                        shares |-> current_balance_data.contracts[opposing_team],
                        price  |-> DefaultTradePrice,
                        reason |-> "Switching position from " \o opposing_team
                                   \o " to " \o decision.team]>>
                ELSE <<>>)
               \o <<[action |-> "BUY", team |-> decision.team,
                     shares |-> decision.size, price |-> DefaultTradePrice,
                     reason |-> Joined(reasoning)]>>]

\* "If we decided to order, determine if we need to sell opposing contracts first"
PortfolioDecision(decision, current_balance_data) ==
    IF decision.should_order
    THEN OrderWithTransactions(
            decision @@ [current_portfolio |-> current_balance_data.contracts,
                         current_balance   |-> current_balance_data.balance],
            IF decision.team = "home" THEN "away" ELSE "home",
            current_balance_data,
            IF current_balance_data.contracts[IF decision.team = "home"
                                              THEN "away" ELSE "home"] > 0
            THEN Append(decision.reasoning,
                        "Selling all opposing contracts before buying "
                        \o decision.team)
            ELSE decision.reasoning)
    ELSE decision @@ [current_portfolio |-> current_balance_data.contracts,
                      current_balance   |-> current_balance_data.balance]

\* the decision for a request whose game has the ledger current_balance_data
DecisionFor(win_data, request, current_balance_data) ==
    PortfolioDecision(
        MarketDecision(
            WinPctDecision(
                PlayDecision(request, request.gameState,
                             DictGet(request, "playOutcome", None)),
                request, request.gameState,
                get_home_team_win_percentage(win_data, request.gameState)),
            request),
        current_balance_data)

\* A request is the json body that pydantic validates: an Optional field the
\* body leaves out is absent here and None in the program.
\* bool(request.gameId)
HasGameId(request) == "gameId" \in DOMAIN request /\ request.gameId # ""

\* request.gameId or f"{request.gameState.homeTeam}_{request.gameState.awayTeam}":
\* the id with the teams read from the request
GameIdFromRequest(request) ==
    IF HasGameId(request) THEN request.gameId
    ELSE request.gameState.homeTeam \o "_" \o request.gameState.awayTeam

\* request.gameId or f"{game_state.homeTeam}_{game_state.awayTeam}", where
\* game_state is a local variable of the function that is assigned four lines
\* further down; what the statement leaves is the id or the exception
DecisionGameId(request) ==
    IF HasGameId(request) THEN [game_id |-> request.gameId]
    ELSE Raise("UnboundLocalError: game_state")

(***************************************************************************)
(* Market data.  A date string is kept as a record so that it compares     *)
(* with None; a datetime is the number of minutes since the first midnight,*)
(* which isoformat() and fromisoformat() carry unchanged.  Of a market the *)
(* token list and the words of its question and title are kept.            *)
(***************************************************************************)
MinutesPerDay == 1440

Days == <<"2026-11-01", "2026-11-02", "2026-11-03">>

\* datetime.now().strftime("%Y-%m-%d")
strftime(now) == [ymd |-> Days[(now \div MinutesPerDay) + 1]]

\* str.lower() of the team names in use
Lower(name) ==
    IF name = "NYY" THEN "nyy"
    ELSE IF name = "BOS" THEN "bos"
    ELSE IF name = "HOME" THEN "home"
    ELSE IF name = "AWAY" THEN "away"
    ELSE name

\* market_text.find(word): the first position of the word, or -1
RECURSIVE FindFrom(_, _, _)
FindFrom(market_text, word, i) ==
    IF i > Len(market_text) THEN -1
    ELSE IF market_text[i] = word THEN i - 1
    ELSE FindFrom(market_text, word, i + 1)

\* "Smart token assignment"
AssignedTokens(market, parsed_tokens, home_team, away_team) ==
    LET home_pos == FindFrom(market.text, Lower(home_team), 1)
        away_pos == FindFrom(market.text, Lower(away_team), 1)
    IN  IF home_pos # -1 /\ away_pos # -1 /\ ~ (away_pos < home_pos)
        THEN [home_token_id |-> parsed_tokens[1], away_token_id |-> parsed_tokens[2]]
        ELSE [home_token_id |-> parsed_tokens[2], away_token_id |-> parsed_tokens[1]]

\* the cache entry written for a game
CacheEntry(tokens, date_str, home_team, away_team) ==
    tokens @@ [date |-> date_str, home_team |-> home_team, away_team |-> away_team]

\* what fetch_and_cache_tokens leaves: the cache, the tokens or the exception,
\* and the number of market-data requests made
TokensFetched(cached, game_id, date_str, home_team, away_team, market_data) ==
    IF IsRaise(market_data)
    THEN [cached_tokens |-> cached, result |-> market_data, fetched |-> 1]
    ELSE IF Len(market_data.market.clobTokenIds) < 2
    THEN [cached_tokens |-> cached,
          result |-> Raise("Expected 2 tokens in parsedClobTokenIds"),
          fetched |-> 1]
    ELSE LET tokens == AssignedTokens(market_data.market,
                                      market_data.market.clobTokenIds,
                                      home_team, away_team)
         IN  [cached_tokens |-> (game_id :> CacheEntry(tokens, date_str, home_team,
                                                       away_team)) @@ cached,
              result |-> tokens, fetched |-> 1]

\* the cache test of fetch_and_cache_tokens
IsCachedFor(cached, game_id, date_str) ==
    game_id \in DOMAIN cached /\ cached[game_id].date = date_str

fetch_and_cache_tokens(cached, home_team, away_team, date_str, market_data) ==
    LET game_id == home_team \o "_" \o away_team
    IN  IF IsCachedFor(cached, game_id, date_str)
        THEN [cached_tokens |-> cached,
              result |-> [home_token_id |-> cached[game_id].home_token_id,
                          away_token_id |-> cached[game_id].away_token_id],
              fetched |-> 0]
        ELSE TokensFetched(cached, game_id, date_str, home_team, away_team,
                           market_data)

\* the prices of the two tokens, or the simulated prices after an exception
get_live_polymarket_prices(cached, home_team, away_team, date_str, env) ==
    LET tokens == fetch_and_cache_tokens(cached, home_team, away_team, date_str,
                                         env.market_data)
    IN  [cached_tokens |-> tokens.cached_tokens,
         prices  |-> IF IsRaise(tokens.result) THEN env.simulated ELSE env.live,
         fetched |-> tokens.fetched]

\* the prices a caller reads with the date left out, as None
LivePricesUndated(cached, home_team, away_team, env) ==
    get_live_polymarket_prices(cached, home_team, away_team, None, env)

\* one entry of contract_price_snapshots[game_id]
Snapshot(now, prices, trigger) ==
    [timestamp |-> now, home_price |-> prices.home, away_price |-> prices.away,
     trigger |-> trigger]

\* contract_price_snapshots[game_id].append(snapshot), the list made when missing
SnapshotsWith(snaps, game_id, snapshot) ==
    IF game_id \in DOMAIN snaps
    THEN [snaps EXCEPT ![game_id] = Append(@, snapshot)]
    ELSE (game_id :> <<snapshot>>) @@ snaps

capture_contract_price_snapshot(cached, snaps, game_id, trigger, home_team, away_team, now, env) ==
    IF home_team # "" /\ away_team # ""
    THEN LET live == LivePricesUndated(cached, home_team, away_team, env)
         IN  [cached_tokens |-> live.cached_tokens,
              contract_price_snapshots |->
                  SnapshotsWith(snaps, game_id, Snapshot(now, live.prices, trigger)),
              prices |-> live.prices, fetched |-> live.fetched]
    ELSE [cached_tokens |-> cached,
          contract_price_snapshots |->
              SnapshotsWith(snaps, game_id, Snapshot(now, env.simulated, trigger)),
          prices |-> env.simulated, fetched |-> 0]

\* "Consider a change significant if any price moved more than 5 cents"
SignificantThreshold == Th(50)

\* for snapshot in reversed(snapshots[:-1]): the first at or before cutoff_time
RECURSIVE BaselineFrom(_, _, _)
BaselineFrom(snapshots, i, cutoff_time) ==
    IF i < 1 THEN None
    ELSE IF snapshots[i].timestamp <= cutoff_time THEN snapshots[i]
    ELSE BaselineFrom(snapshots, i - 1, cutoff_time)

\* the baseline that only ever is the first snapshot
FirstSnapshotAsBaseline(snapshots, time_window_minutes) == snapshots[1]

BaselineOf(snapshots, time_window_minutes) ==
    LET latest   == snapshots[Len(snapshots)]
        baseline == BaselineFrom(snapshots, Len(snapshots) - 1,
                                 latest.timestamp - time_window_minutes)
    IN  IF baseline = None THEN snapshots[1] ELSE baseline

\* the guard that never finds a significant change
NeverSignificant(home_change, away_change) == FALSE

IsSignificant(home_change, away_change) ==
    \/ FLt(SignificantThreshold, FAbs(home_change))
    \/ FLt(SignificantThreshold, FAbs(away_change))

PriceChange(latest, baseline, time_window_minutes, home_change, away_change) ==
    [significant_change |-> IsSignificant(home_change, away_change),
     home_change   |-> home_change,
     away_change   |-> away_change,
     threshold     |-> SignificantThreshold,
     time_window   |-> time_window_minutes,
     baseline_time |-> baseline.timestamp,
     latest_time   |-> latest.timestamp]

MovementSince(latest, baseline, time_window_minutes) ==
    PriceChange(latest, baseline, time_window_minutes,
                FSub(latest.home_price, baseline.home_price),
                FSub(latest.away_price, baseline.away_price))

analyze_price_movement(snaps, game_id, time_window_minutes) ==
    IF game_id \notin DOMAIN snaps
    THEN [significant_change |-> FALSE, reason |-> "Insufficient price history"]
    ELSE IF Len(snaps[game_id]) < 2
    THEN [significant_change |-> FALSE, reason |-> "Insufficient price history"]
    ELSE MovementSince(snaps[game_id][Len(snaps[game_id])],
                       BaselineOf(snaps[game_id], time_window_minutes),
                       time_window_minutes)

(***************************************************************************)
(* Automated trading.  The numbers that the reason texts format are left   *)
(* out of the texts.                                                       *)
(***************************************************************************)
IntAbs(n) == IF n < 0 THEN -n ELSE n

\* "away" if team == "home" else "home"
OtherSide(team) == IF team = "home" THEN "away" ELSE "home"

\* min(a, b) of two floats
FMin(a, b) == IF FLt(b, a) THEN b ELSE a

NoTradeSituation(reason) ==
    [should_trade |-> FALSE, reason |-> reason, impact_factor |-> FZero]

\* the thresholds and factors of assess_game_situation_impact
EarlyInningImpact == FOne

MiddleInningImpact == Th(800)

CloseGameImpact == Th(1200)

ModerateLeadImpact == Th(900)

LargeLeadImpact == Th(500)

RunImpactScale == Th(500)

MinImpactFactor == Th(300)

MinRunChange == Th(200)

\* "Calculate impact factor based on game situation"
BaseImpact(inning, score_diff) ==
    IF inning <= 3 THEN EarlyInningImpact
    ELSE IF inning <= 6 THEN MiddleInningImpact
    ELSE IF score_diff <= 1 THEN CloseGameImpact
    ELSE IF score_diff <= 3 THEN ModerateLeadImpact
    ELSE LargeLeadImpact

ImpactOf(expected_run_change, score_diff, inning, base_impact, run_impact, final_impact) ==
    [should_trade  |-> /\ FLe(MinImpactFactor, final_impact)
                       /\ FLe(MinRunChange, FAbs(expected_run_change)),
     impact_factor |-> final_impact,
     base_impact   |-> base_impact,
     run_impact    |-> run_impact,
     expected_run_change |-> expected_run_change,
     score_diff    |-> score_diff,
     inning        |-> inning,
     reason        |-> "Impact factor (threshold: 0.3)"]

ImpactFrom(expected_run_change, score_diff, inning, base_impact, run_impact) ==
    ImpactOf(expected_run_change, score_diff, inning, base_impact, run_impact,
             FMul(base_impact, run_impact))

assess_game_situation_impact(game_state, expected_run_change) ==
    LET inning     == DictGet(game_state, "inning", 1)
        score_diff == IntAbs(DictGet(game_state, "homeScore", 0)
                             - DictGet(game_state, "awayScore", 0))
    IN  IF score_diff >= 8 THEN NoTradeSituation("Blowout game")
        ELSE IF inning >= 8 /\ score_diff >= 5
        THEN NoTradeSituation("Late inning with large lead")
        ELSE ImpactFrom(expected_run_change, score_diff, inning,
                        BaseImpact(inning, score_diff),
                        FMin(FOne, FDiv(FAbs(expected_run_change), RunImpactScale)))

NoTrade(reason, expected_run_change, quality) ==
    [trade_executed |-> FALSE, reason |-> reason,
     expected_run_change |-> expected_run_change, quality |-> quality]

\* "Scale by expected run change magnitude"
SharesPerRun == FFromInt(100)

\* max(10, min(100, int(abs(expected_run_change) * 100)))
BaseSize(expected_run_change) ==
    IntMax(10, IntMin(100, FToInt(FMul(FAbs(expected_run_change), SharesPerRun))))

\* "Positive expected run change benefits the batting team", negative the
\* pitching team; None stands for the return of "No expected run change"
BenefitingTeam(game_state, expected_run_change) ==
    LET is_top_inning == DictGet(game_state, "isTopOfInning", TRUE)
    IN  IF FLt(FZero, expected_run_change)
        THEN [team |-> IF is_top_inning THEN "away" ELSE "home"]
        ELSE IF FLt(expected_run_change, FZero)
        THEN [team |-> IF is_top_inning THEN "home" ELSE "away"]
        ELSE None

\* what the part of execute_automated_trade that touches the ledger leaves
Traded(balances, result) == [game_balances |-> balances, result |-> result]

SellTransaction(opposing_team, benefiting_team, shares, price, sell_proceeds) ==
    [action |-> "SELL", team |-> opposing_team, shares |-> shares,
     price_per_share |-> price, total_cost |-> FNeg(sell_proceeds),
     reason |-> "Sell opposing position before buying " \o benefiting_team,
     timestamp |-> "now"]

BuyTransaction(benefiting_team, position_size, price, trade_cost, quality) ==
    [action |-> "BUY", team |-> benefiting_team, shares |-> position_size,
     price_per_share |-> price, total_cost |-> trade_cost,
     reason |-> "Expected run change (quality: " \o quality \o ")",
     timestamp |-> "now"]

\* the refusal that leaves the sale of the opposing position in the ledger
RefusedAfterSale(balances, game_id, expected_run_change, quality, new_balance, new_contracts, transactions) ==
    Traded([balances EXCEPT ![game_id] =
               [@ EXCEPT !.balance = new_balance, !.contracts = new_contracts,
                         !.history = @ \o transactions]],
           NoTrade("Insufficient balance after selling", expected_run_change,
                   quality))

\* the refusal for want of balance: the global state is not updated
RefusedForBalance(balances, game_id, expected_run_change, quality, new_balance, new_contracts, transactions) ==
    Traded(balances,
           NoTrade("Insufficient balance after selling", expected_run_change,
                   quality))

\* "Update global state" and the result of an executed trade
TradeExecuted(balances, game_id, expected_run_change, quality, benefiting_team, situation_analysis, price_analysis, transactions, buy_transaction, new_balance, new_contracts) ==
    Traded([balances EXCEPT ![game_id] =
               [@ EXCEPT !.balance = new_balance, !.contracts = new_contracts,
                         !.history = @ \o transactions]],
           [trade_executed      |-> TRUE,
            transactions        |-> transactions,
            primary_transaction |-> buy_transaction,
            new_balance         |-> new_balance,
            new_contracts       |-> new_contracts,
            expected_run_change |-> expected_run_change,
            quality             |-> quality,
            benefiting_team     |-> benefiting_team,
            situation_analysis  |-> situation_analysis,
            price_analysis      |-> price_analysis])

\* "BUY new contracts", after the sale of the opposing position was worked out
BuyAfterSale(balances, game_id, expected_run_change, quality, benefiting_team, situation_analysis, price_analysis, position_size, price, trade_cost, new_balance, new_contracts, transactions) ==
    IF FLt(new_balance, trade_cost)
    THEN RefusedForBalance(balances, game_id, expected_run_change, quality,
                           new_balance, new_contracts, transactions)
    ELSE TradeExecuted(balances, game_id, expected_run_change, quality,
                       benefiting_team, situation_analysis, price_analysis,
                       Append(transactions,
                              BuyTransaction(benefiting_team, position_size, price,
                                             trade_cost, quality)),
                       BuyTransaction(benefiting_team, position_size, price,
                                      trade_cost, quality),
                       FSub(new_balance, trade_cost),
                       [new_contracts EXCEPT ![benefiting_team] = @ + position_size])

\* "SELL opposing contracts first if we have any"
SellThenBuy(balances, game_id, expected_run_change, quality, benefiting_team, opposing_team, situation_analysis, price_analysis, position_size, prices, sell_proceeds) ==
    LET current == balances[game_id]
    IN  IF current.contracts[opposing_team] > 0
        THEN BuyAfterSale(balances, game_id, expected_run_change, quality,
                          benefiting_team, situation_analysis, price_analysis,
                          position_size, prices[benefiting_team],
                          FMul(FFromInt(position_size), prices[benefiting_team]),
                          FAdd(current.balance, sell_proceeds),
                          [current.contracts EXCEPT ![opposing_team] = 0],
                          <<SellTransaction(opposing_team, benefiting_team,
                                            current.contracts[opposing_team],
                                            prices[opposing_team], sell_proceeds)>>)
        ELSE BuyAfterSale(balances, game_id, expected_run_change, quality,
                          benefiting_team, situation_analysis, price_analysis,
                          position_size, prices[benefiting_team],
                          FMul(FFromInt(position_size), prices[benefiting_team]),
                          current.balance, current.contracts, <<>>)

\* steps 5 and 6, on the ledger that initialize_game_balance(game_id) returned
TradeFor(balances, game_id, expected_run_change, quality, benefiting_team, opposing_team, situation_analysis, price_analysis, prices) ==
    SellThenBuy(balances, game_id, expected_run_change, quality, benefiting_team,
                opposing_team, situation_analysis, price_analysis,
                FToInt(FMul(FFromInt(BaseSize(expected_run_change)),
                            situation_analysis.impact_factor)),
                prices,
                FMul(FFromInt(balances[game_id].contracts[opposing_team]),
                     prices[opposing_team]))

\* steps 3 to 6: the price guard, the direction, the size and the ledger
TradeAfterSnapshot(balances, game_id, game_state, expected_run_change, quality, situation_analysis, price_analysis, prices) ==
    IF price_analysis.significant_change
    THEN Traded(balances,
                NoTrade("Price moved too much", expected_run_change, quality)
                @@ [price_analysis |-> price_analysis])
    ELSE IF BenefitingTeam(game_state, expected_run_change) = None
    THEN Traded(balances, NoTrade("No expected run change", expected_run_change,
                                  quality))
    ELSE TradeFor(BalancesWithGame(balances, game_id), game_id, expected_run_change,
                  quality, BenefitingTeam(game_state, expected_run_change).team,
                  OtherSide(BenefitingTeam(game_state, expected_run_change).team),
                  situation_analysis, price_analysis, prices)

\* steps 2 to 6, with the snapshot captured
TradeWithSnapshot(balances, game_id, game_state, expected_run_change, quality, situation_analysis, captured) ==
    TradeAfterSnapshot(balances, game_id, game_state, expected_run_change, quality,
                       situation_analysis,
                       analyze_price_movement(captured.contract_price_snapshots,
                                              game_id, 5),
                       captured.prices)
    @@ [cached_tokens |-> captured.cached_tokens,
        contract_price_snapshots |-> captured.contract_price_snapshots,
        fetched |-> captured.fetched]

execute_automated_trade(balances, cached, snaps, game_id, game_state, expected_run_change, quality, home_team, away_team, now, env) ==
    LET situation_analysis ==
            assess_game_situation_impact(game_state, expected_run_change)
    IN  IF ~ situation_analysis.should_trade
        THEN [game_balances |-> balances, cached_tokens |-> cached,
              contract_price_snapshots |-> snaps, fetched |-> 0,
              result |-> NoTrade(situation_analysis.reason, expected_run_change,
                                 quality)]
        ELSE TradeWithSnapshot(balances, game_id, game_state, expected_run_change,
                               quality, situation_analysis,
                               capture_contract_price_snapshot(
                                   cached, snaps, game_id,
                                   "quality_selection_" \o quality,
                                   home_team, away_team, now, env))

(***************************************************************************)
(* Program state.                                                          *)
(***************************************************************************)
VARIABLES
    play_transition_data,     \* None, or the DataFrame of the parsed csv rows
    in_play_percentage_data,  \* dict: initial base key -> outcome key -> probability
    game_balances,            \* dict: game id -> ledger
    win_percentage_data,      \* dict: game situation -> home team win percentage
    current_game_states,      \* dict: game id -> the game state last synced
    cached_tokens,            \* dict: game id -> token ids and the date they are for
    contract_price_snapshots, \* dict: game id -> list of price snapshots
    now,                      \* the clock that datetime.now() reads
    ret                       \* the call in progress and what it returned

\* the state that sync_game_state keeps besides the ledgers, and the clock
market_vars == <<current_game_states, cached_tokens, contract_price_snapshots, now>>

vars == <<play_transition_data, in_play_percentage_data, game_balances,
          win_percentage_data, market_vars, ret>>

Idle == [op |-> "idle"]

(***************************************************************************)
(* Inputs: the csv files the loader may find, and the game states and      *)
(* quality names a caller may pass.                                        *)
(***************************************************************************)
MaxRows == 3

\* (runs_scored, outs, end_base) of a play
Shapes ==
    << [runs_scored |-> 0, outs |-> 1, end_base |-> <<0, 1, 0>>],
       [runs_scored |-> 0, outs |-> 2, end_base |-> <<0, 0, 0>>],
       [runs_scored |-> 0, outs |-> 0, end_base |-> <<1, 1, 0>>],
       [runs_scored |-> 1, outs |-> 0, end_base |-> <<0, 0, 1>>],
       [runs_scored |-> 2, outs |-> 0, end_base |-> <<0, 0, 0>>],
       [runs_scored |-> 1, outs |-> 2, end_base |-> <<0, 0, 0>>] >>

\* norm_value column, in thousandths
Norms == << -1000, 250, 1000 >>

\* (start_base, start_outs) of the rows
Starts ==
    << [start_base |-> <<0, 1, 0>>, start_outs |-> 2],
       [start_base |-> <<0, 1, 0>>, start_outs |-> 0],
       [start_base |-> <<0, 0, 0>>, start_outs |-> 2] >>

\* the start states whose plays vary; the last start state only holds other rows
NumFocus == Len(Starts) - 1

\* the value column of the generated rows: run expectancy grows with norm_value
ValueOfNorm(n) == (3 * n) \div 4 + 125

CsvRow(start, shape, norm, value) ==
    [start_base  |-> start.start_base,
     start_outs  |-> start.start_outs,
     end_base    |-> shape.end_base,
     runs_scored |-> shape.runs_scored,
     outs        |-> shape.outs,
     norm_value  |-> norm,
     value       |-> value]

NumPlays == Len(Shapes) * Len(Norms)

\* the i-th play of a start state, 1 <= i <= NumPlays
Play(start, i) ==
    LET norm == Norms[((i - 1) % Len(Norms)) + 1]
    IN  CsvRow(start, Shapes[((i - 1) \div Len(Norms)) + 1], norm, ValueOfNorm(norm))

\* strictly increasing sequences of at most k numbers in lo..hi
RECURSIVE IncSeqs(_, _, _)
IncSeqs(lo, hi, k) ==
    IF k = 0 THEN {<<>>}
    ELSE {<<>>} \cup
         UNION {{<<i>> \o t : t \in IncSeqs(i + 1, hi, k - 1)} : i \in lo..hi}

\* rows of the other start states, with a norm value that would move every
\* threshold of the focus state if they were counted in
OtherRows(focus) ==
    LET Other(i) == CsvRow(Starts[i], Shapes[1], 500, ValueOfNorm(500))
        Keep(i)  == Starts[i] # focus
    IN  Map(Other, SelectSeq(<<1, 2, 3>>, Keep))

\* csv files: up to MaxRows plays of one start state, alone or after rows of
\* the other start states
VariedCsvFiles ==
    UNION {UNION {{ Map(LAMBDA i : Play(Starts[f], i), t),
                    OtherRows(Starts[f]) \o Map(LAMBDA i : Play(Starts[f], i), t) }
                  : t \in IncSeqs(1, NumPlays, MaxRows)}
           : f \in 1..NumFocus}

\* csv files with more plays of one start state than the filter returns: n
\* rows whose shapes cycle from the first-th on and whose norm values are
\* spread over [-1, 0.95] in no particular order
LongNorm(j) == 150 * ((5 * j) % 14) - 1000

LongCsv(start, first, n) ==
    [j \in 1..n |->
        CsvRow(start, Shapes[((first + j - 2) % Len(Shapes)) + 1],
               LongNorm(j), ValueOfNorm(LongNorm(j)))]

LongCsvFiles ==
    { LongCsv(Starts[f], first, n) :
        f \in 1..NumFocus, first \in 1..Len(Shapes),
        n \in (MaxOptions + 1)..(MaxOptions + MaxRows) }

CsvFiles == VariedCsvFiles \cup LongCsvFiles

GameStates ==
    { [bases |-> [first |-> FALSE, second |-> TRUE, third |-> FALSE], outs |-> 2],
      [bases |-> [first |-> FALSE, second |-> FALSE, third |-> FALSE], outs |-> 2],
      [bases |-> [second |-> TRUE]],
      [bases |-> [first |-> TRUE, second |-> FALSE, third |-> TRUE], outs |-> 3] }

Qualities == {"very-bad", "bad", "neutral", "good", "very-good", "great"}

\* callers of the ledger: game ids, actions, teams, share counts, prices
GameIds == {"NYY_BOS", "LAD_SF"}

TradeActions == {"BUY", "SELL", "HOLD"}

Teams == {"home", "away"}

ShareCounts == {10, 2000}

Prices == {Th(600)}

\* transactions recorded over all games
MaxHistory == 2

RECURSIVE TotalHistory(_, _)
TotalHistory(balances, game_ids) ==
    IF game_ids = {} THEN 0
    ELSE LET g == CHOOSE x \in game_ids : TRUE
         IN  Len(balances[g].history) + TotalHistory(balances, game_ids \ {g})

\* the csv file of the ledger runs: an out, a walk and a home run
LedgerCsvFiles == { Map(LAMBDA i : Play(Starts[NumFocus], i), <<1, 8, 15>>) }

\* csv files for the Expected Value Engine: up to EvMaxRows plays of the second
\* start state, and tables of one play more than the filter returns
EvMaxRows == 2

EvCsvFiles ==
    { Map(LAMBDA i : Play(Starts[NumFocus], i), t) :
        t \in IncSeqs(1, NumPlays, EvMaxRows) }
    \cup { LongCsv(Starts[NumFocus], first, MaxOptions + 1) : first \in 1..Len(Shapes) }

\* the key of a play in filtered_in_play.json
ShapeKey(shape) == <<shape.end_base, shape.runs_scored, shape.outs>>

\* filtered_in_play.json: absent or empty; probabilities for some plays of the
\* second start state, some of them 0; another start state only; a null
JsonFiles ==
    { EmptyDict,
      (Starts[NumFocus].start_base :>
          (ShapeKey(Shapes[1]) :> Th(300) @@ ShapeKey(Shapes[2]) :> FZero
           @@ ShapeKey(Shapes[3]) :> Th(50) @@ ShapeKey(Shapes[4]) :> FZero
           @@ ShapeKey(Shapes[6]) :> Th(250))),
      (<<1, 0, 0>> :> (ShapeKey(Shapes[1]) :> Th(300))),
      (Starts[NumFocus].start_base :> (ShapeKey(Shapes[1]) :> None)) }

\* plays for the threshold rules: the six shapes, a batter on third alone with
\* nobody scoring, and runners on first and third
ThresholdShapes ==
    Shapes \o
    << [runs_scored |-> 0, outs |-> 0, end_base |-> <<0, 0, 1>>],
       [runs_scored |-> 0, outs |-> 0, end_base |-> <<1, 0, 1>>] >>

ThresholdPlay(start, i) ==
    LET norm == Norms[((i - 1) % Len(Norms)) + 1]
    IN  CsvRow(start, ThresholdShapes[((i - 1) \div Len(Norms)) + 1], norm,
               ValueOfNorm(norm))

\* n rows that are all neutral candidates and none a no-out no-run play, with
\* n different norm values
NeutralCsv(start, n) ==
    [j \in 1..n |->
        CsvRow(start, Shapes[IF j % 2 = 1 THEN 1 ELSE 4], LongNorm(j),
               ValueOfNorm(LongNorm(j)))]

\* csv files for the threshold rules: up to MaxRows plays of the start state
\* with a runner on second and no outs, or of the one with the bases empty
ThresholdCsvFiles ==
    UNION {{ Map(LAMBDA i : ThresholdPlay(Starts[f], i), t)
             : t \in IncSeqs(1, Len(ThresholdShapes) * Len(Norms), MaxRows) }
           : f \in {NumFocus, Len(Starts)}}
    \cup { NeutralCsv(Starts[NumFocus], n) : n \in 2..(MaxRows + 1) }

\* the stats file: absent or empty; lines that favour the home team in a late
\* tied game and the fielding team with the bases loaded, with a situation
\* that no game was recorded for; a line that favours the away team
WinLine(inning, is_top, outs, bases, wins, total_games) ==
    [inning |-> inning, is_top |-> is_top, outs |-> outs, bases |-> bases,
     score_diff |-> 0, balls |-> 0, strikes |-> 0,
     wins |-> wins, total_games |-> total_games]

WinFiles ==
    { <<>>,
      << WinLine(8, 0, 2, <<0, 1, 0>>, 9, 10), WinLine(1, 1, 0, <<1, 1, 1>>, 1, 4),
         WinLine(1, 1, 0, <<0, 0, 0>>, 0, 0) >>,
      << WinLine(8, 0, 2, <<0, 1, 0>>, 1, 10) >> }

\* the game situations of the requests: a late tied game with two outs and a
\* runner on second, the bases loaded in the first, and the first pitch
Situation(inning, is_top, outs, bases) ==
    [homeScore |-> 3, awayScore |-> 3, inning |-> inning, isTopOfInning |-> is_top,
     outs |-> outs, strikes |-> 0, balls |-> 0,
     bases |-> [first |-> bases[1], second |-> bases[2], third |-> bases[3]],
     homeTeam |-> "NYY", awayTeam |-> "BOS"]

Situations ==
    { Situation(8, FALSE, 2, <<FALSE, TRUE, FALSE>>),
      Situation(1, TRUE, 0, <<TRUE, TRUE, TRUE>>),
      Situation(1, TRUE, 0, <<FALSE, FALSE, FALSE>>) }

\* playOutcome: left out, without a normValue, or with one
PlayOutcomes ==
    { None, [description |-> "play", normValue |-> None] }
    \cup { [description |-> "play", normValue |-> Th(n)] : n \in {1000, 850, 250, -1000} }

\* the bodies of /contract_decision: gameId may be left out
RequestsWithoutGameId ==
    { [gameState |-> gs, playOutcome |-> po, trigger |-> "manual", maxRiskSize |-> m]
        : gs \in Situations, po \in PlayOutcomes, m \in {10, 2} }
    \cup { [gameState |-> gs, marketPrices |-> [awayPrices |-> None, homePrices |-> None],
            trigger |-> "manual", maxRiskSize |-> 10] : gs \in Situations }

ContractDecisionRequests ==
    RequestsWithoutGameId
    \cup { r @@ [gameId |-> g] : r \in RequestsWithoutGameId, g \in GameIds }

\* share counts of the trades made before a decision: the second leaves 4.00
DecisionShareCounts == {10, 1660}

\* requests to /sync_game_state: top of the first inning of NYY against BOS
\* with a runner on second, and the same state nine runs apart
SyncState ==
    [homeTeam |-> "NYY", awayTeam |-> "BOS", homeScore |-> 0, awayScore |-> 0,
     inning |-> 1, isTopOfInning |-> TRUE, outs |-> 0, balls |-> 0, strikes |-> 0,
     bases |-> [first |-> FALSE, second |-> TRUE, third |-> FALSE]]

BlowoutState == [SyncState EXCEPT !.homeScore = 9]

PlainSync == [gameState |-> SyncState]

InPlayPressed == [gameState |-> SyncState, actionType |-> "IN_PLAY_PRESSED"]

QualityChange(game_state, quality) ==
    [gameState |-> game_state, actionType |-> "QUALITY_CHANGE",
     playQuality |-> quality]

\* the requests of the token cache
TokenRequests == {PlainSync, InPlayPressed}

\* the requests of the price guard
GuardRequests == {InPlayPressed, QualityChange(SyncState, "good")}

\* the requests of the trades: a press of in-play with a quality left over, the
\* five qualities, a name that is no quality, and a quality chosen in a blowout
TradeRequests ==
    { InPlayPressed @@ [playQuality |-> "good"],
      QualityChange(SyncState, "very-bad"), QualityChange(SyncState, "bad"),
      QualityChange(SyncState, "neutral"), QualityChange(SyncState, "good"),
      QualityChange(SyncState, "very-good"), QualityChange(SyncState, "great"),
      QualityChange(BlowoutState, "good") }

\* the csv file of the trades: an out, a walk, and a run scored on a double
\* play. Its expected run change is -0.625 for very-bad and bad, -0.312 for
\* neutral, 0.312 for good, and very-good has no outcome.
TradeCsvFiles == { Map(LAMBDA i : Play(Starts[NumFocus], i), <<1, 8, 16>>) }

\* what the market-data request of a slug returns: a market, or an exception
MarketFound ==
    [success |-> TRUE,
     market  |-> [clobTokenIds |-> <<"7422", "1093">>,
                  text |-> <<"nyy", "vs.", "bos">>]]

MarketMissing == Raise("Failed to fetch market data: No events found for this slug")

\* (home, away) prices in thousandths
PricesOf(home, away) == [home |-> Th(home), away |-> Th(away)]

\* the network during one request: the market-data answer, the live prices of
\* the two tokens, and the prices simulated when the tokens cannot be had
MarketUp == [market_data |-> MarketFound, live |-> PricesOf(550, 450),
             simulated |-> PricesOf(550, 450)]

MarketMoved == [market_data |-> MarketFound, live |-> PricesOf(620, 380),
                simulated |-> PricesOf(550, 450)]

MarketDown == [market_data |-> MarketMissing, live |-> PricesOf(550, 450),
               simulated |-> PricesOf(530, 470)]

\* snapshots kept per game
MaxSnapshots == 2

\* purchases made before a trade: 10 away for 6.00 and 1650 home for 990.00
TradeSetups == { [team |-> "away", shares |-> 10], [team |-> "home", shares |-> 1650] }

(***************************************************************************)
(* Operations.                                                             *)
(***************************************************************************)
Init ==
    /\ play_transition_data = None
    /\ in_play_percentage_data = EmptyDict
    /\ game_balances = EmptyDict
    /\ win_percentage_data = EmptyDict
    /\ current_game_states = EmptyDict
    /\ cached_tokens = EmptyDict
    /\ contract_price_snapshots = EmptyDict
    /\ now = 0
    /\ ret = Idle

\* load_play_transition_data finding one of csv_files and one of json_files
load_play_transition_data(csv_files, json_files) ==
    /\ ret = Idle
    /\ play_transition_data = None
    /\ \E csv \in csv_files, json \in json_files :
          /\ play_transition_data' = DataFrame(Map(ParseCsvRow, csv))
          /\ in_play_percentage_data' = json
    /\ UNCHANGED <<game_balances, win_percentage_data, ret, market_vars>>

CallThresholds ==
    /\ ret = Idle
    /\ \E game_state \in GameStates :
          ret' = [op         |-> "calculate_quality_thresholds",
                  game_state |-> game_state,
                  result     |-> calculate_quality_thresholds(play_transition_data,
                                                              game_state)]
    /\ UNCHANGED <<play_transition_data, in_play_percentage_data, game_balances,
                   win_percentage_data, market_vars>>

CallOptions ==
    /\ ret = Idle
    /\ \E game_state \in GameStates, quality \in Qualities :
          ret' = [op         |-> "get_play_options_by_quality",
                  game_state |-> game_state,
                  quality    |-> quality,
                  result     |-> get_play_options_by_quality(play_transition_data,
                                                             quality, game_state)]
    /\ UNCHANGED <<play_transition_data, in_play_percentage_data, game_balances,
                   win_percentage_data, market_vars>>

initialize_game_balance(game_id) ==
    /\ ret = Idle
    /\ game_balances' = BalancesWithGame(game_balances, game_id)
    /\ ret' = [op      |-> "initialize_game_balance",
               game_id |-> game_id,
               result  |-> game_balances'[game_id]]
    /\ UNCHANGED <<play_transition_data, in_play_percentage_data,
                   win_percentage_data, market_vars>>

\* the ledger of the game replaced, and the result returned
RecordTransaction(game_id, action, team, shares, price_per_share, balances, done) ==
    /\ game_balances' = [balances EXCEPT ![game_id] = done.ledger]
    /\ ret' = [op              |-> "simulate_contract_transaction",
               game_id         |-> game_id,
               action          |-> action,
               team            |-> team,
               shares          |-> shares,
               price_per_share |-> price_per_share,
               result          |-> done.result]

\* the call after its initialize_game_balance(game_id)
TransactIn(balances, game_id, action, team, shares, price_per_share, reason) ==
    RecordTransaction(game_id, action, team, shares, price_per_share, balances,
                      Transact(balances[game_id], action, team, shares,
                               price_per_share, reason))

simulate_contract_transaction(game_id, action, team, shares, price_per_share, reason) ==
    /\ ret = Idle
    /\ TotalHistory(game_balances, DOMAIN game_balances) < MaxHistory
    /\ TransactIn(BalancesWithGame(game_balances, game_id), game_id, action, team,
                  shares, price_per_share, reason)
    /\ UNCHANGED <<play_transition_data, in_play_percentage_data,
                   win_percentage_data, market_vars>>

\* the call with the probability lookup done by setdefault: the start state's
\* key is put into in_play_percentage_data when it is not there
CallExpectedValueSettingDefault ==
    /\ ret = Idle
    /\ \E game_state \in GameStates, quality \in Qualities :
          /\ ret' = [op         |-> "calculate_expected_value_for_quality",
                     game_state |-> game_state,
                     quality    |-> quality,
                     result     |-> calculate_expected_value_for_quality(
                                       play_transition_data, in_play_percentage_data,
                                       quality, game_state)]
          /\ in_play_percentage_data' =
                LET key == BaseKey(DictGet(game_state, "bases", EmptyDict))
                IN  IF key \in DOMAIN in_play_percentage_data
                    THEN in_play_percentage_data
                    ELSE (key :> EmptyDict) @@ in_play_percentage_data
    /\ UNCHANGED <<play_transition_data, game_balances, win_percentage_data, market_vars>>

CallExpectedValue ==
    /\ ret = Idle
    /\ \E game_state \in GameStates, quality \in Qualities :
          ret' = [op         |-> "calculate_expected_value_for_quality",
                  game_state |-> game_state,
                  quality    |-> quality,
                  result     |-> calculate_expected_value_for_quality(
                                    play_transition_data, in_play_percentage_data,
                                    quality, game_state)]
    /\ UNCHANGED <<play_transition_data, in_play_percentage_data, game_balances,
                   win_percentage_data, market_vars>>

\* load_win_percentage_data reading one of the stats files
load_win_percentage_data(files) ==
    /\ ret = Idle
    /\ win_percentage_data = EmptyDict
    /\ \E lines \in files :
          win_percentage_data' = WinTableFrom(lines, 1, win_percentage_data)
    /\ UNCHANGED <<play_transition_data, in_play_percentage_data,
                   game_balances, ret, market_vars>>

\* the call from the id on: the ledger is created when missing, the decision made
DecideFor(request, id) ==
    IF IsRaise(id)
    THEN /\ game_balances' = game_balances
         /\ ret' = [op      |-> "calculate_contract_decision",
                    request |-> request,
                    result  |-> id]
    ELSE /\ game_balances' = BalancesWithGame(game_balances, id.game_id)
         /\ ret' = [op      |-> "calculate_contract_decision",
                    request |-> request,
                    result  |-> DecisionFor(win_percentage_data, request,
                                            game_balances'[id.game_id])]

calculate_contract_decision(request) ==
    /\ ret = Idle
    /\ DecideFor(request, DecisionGameId(request))
    /\ UNCHANGED <<play_transition_data, in_play_percentage_data,
                   win_percentage_data, market_vars>>

\* play_quality and action_type == 'QUALITY_CHANGE' and play_quality in [...]
IsQualitySelection(request) ==
    /\ "playQuality" \in DOMAIN request
    /\ request.playQuality # ""
    /\ "actionType" \in DOMAIN request
    /\ request.actionType = "QUALITY_CHANGE"
    /\ request.playQuality \in {"very-bad", "bad", "neutral", "good", "very-good"}

IsInPlayPressed(request) ==
    "actionType" \in DOMAIN request /\ request.actionType = "IN_PLAY_PRESSED"

\* the quality selection that trades on 'neutral' as well
TradesOnAnyQuality(quality) == TRUE

\* if play_quality != 'neutral'
TradesOnQuality(quality) == quality # "neutral"

\* the state a step of sync_game_state hands to the next, with nothing fetched
\* and no trade tried
Untouched(balances, cached, snaps) ==
    [game_balances |-> balances, cached_tokens |-> cached,
     contract_price_snapshots |-> snaps, fetched |-> 0, result |-> None]

\* "Handle in-play button press - capture initial price snapshot"
InPlaySnapshot(request, cached, snaps, game_id, home_team, away_team, clock, env) ==
    IF IsInPlayPressed(request)
    THEN capture_contract_price_snapshot(cached, snaps, game_id, "in_play",
                                         home_team, away_team, clock, env)
    ELSE [cached_tokens |-> cached, contract_price_snapshots |-> snaps,
          fetched |-> 0]

\* the quality selection after the expected value was computed
TradeOnExpectedValue(balances, cached, snaps, game_id, game_state, play_quality, home_team, away_team, clock, env, expected_value_data) ==
    IF "error" \in DOMAIN expected_value_data
    THEN Untouched(balances, cached, snaps)
    ELSE IF TradesOnQuality(play_quality)
    THEN execute_automated_trade(balances, cached, snaps, game_id, game_state,
                                 expected_value_data.expected_value, play_quality,
                                 home_team, away_team, clock, env)
    ELSE Untouched(balances, cached, snaps)

\* "Handle quality button selections"
QualitySelection(data, probs, balances, cached, snaps, request, game_id, game_state, home_team, away_team, clock, env) ==
    IF IsQualitySelection(request)
    THEN TradeOnExpectedValue(balances, cached, snaps, game_id, game_state,
                              request.playQuality, home_team, away_team, clock, env,
                              calculate_expected_value_for_quality(
                                  data, probs, request.playQuality, game_state))
    ELSE Untouched(balances, cached, snaps)

\* "Ensure tokens are cached for this game (only if not already cached)"
EnsureCached(cached, game_id, home_team, away_team, today, env) ==
    IF game_id \notin DOMAIN cached \/ cached[game_id].date # today
    THEN fetch_and_cache_tokens(cached, home_team, away_team, today, env.market_data)
    ELSE [cached_tokens |-> cached, result |-> None, fetched |-> 0]

\* the game state stored with its context
StateWithContext(request, game_state, clock) ==
    game_state @@ [_play_quality |-> DictGet(request, "playQuality", None),
                   _action_type  |-> DictGet(request, "actionType", None),
                   _timestamp    |-> clock]

\* the end of the handler: the state is stored, the tokens are cached, and the
\* requests made for market data are counted
SyncStored(request, game_id, game_state, live_fetched, snapshot_fetched, traded, ensured) ==
    /\ game_balances' = BalancesWithGame(traded.game_balances, game_id)
    /\ contract_price_snapshots' = traded.contract_price_snapshots
    /\ current_game_states' =
          (game_id :> StateWithContext(request, game_state, now))
          @@ current_game_states
    /\ cached_tokens' = ensured.cached_tokens
    /\ ret' = [op             |-> "sync_game_state",
               request        |-> request,
               game_id        |-> game_id,
               trading_result |-> traded.result,
               market_fetches |-> live_fetched + snapshot_fetched + traded.fetched
                                  + ensured.fetched,
               result         |-> [success       |-> TRUE,
                                   game_id       |-> game_id,
                                   tokens_cached |-> game_id \in DOMAIN cached_tokens']]

\* the handler after the trade
SyncTraded(request, game_id, game_state, home_team, away_team, env, live_fetched, snapshot_fetched, traded) ==
    SyncStored(request, game_id, game_state, live_fetched, snapshot_fetched, traded,
               EnsureCached(traded.cached_tokens, game_id, home_team, away_team,
                            strftime(now), env))

\* the handler after the snapshot of the in-play press
SyncSnapshot(request, game_id, game_state, home_team, away_team, env, live_fetched, snapshot) ==
    SyncTraded(request, game_id, game_state, home_team, away_team, env,
               live_fetched, snapshot.fetched,
               QualitySelection(play_transition_data, in_play_percentage_data,
                                game_balances, snapshot.cached_tokens,
                                snapshot.contract_price_snapshots, request, game_id,
                                game_state, home_team, away_team, now, env))

\* the handler after "Get current live contract prices"
SyncPriced(request, game_id, game_state, home_team, away_team, env, live) ==
    SyncSnapshot(request, game_id, game_state, home_team, away_team, env,
                 live.fetched,
                 InPlaySnapshot(request, live.cached_tokens, contract_price_snapshots,
                                game_id, home_team, away_team, now, env))

\* the handler for the teams of the game state
SyncTeams(request, game_state, home_team, away_team, env) ==
    SyncPriced(request, home_team \o "_" \o away_team, game_state, home_team,
               away_team, env,
               LivePricesUndated(cached_tokens, home_team, away_team, env))

\* snapshots kept for a game
SnapshotCount(snaps, game_id) ==
    IF game_id \in DOMAIN snaps THEN Len(snaps[game_id]) ELSE 0

\* POST /sync_game_state with one of the requests while the network is in one
\* of the conditions envs
sync_game_state(requests, envs, max_snapshots) ==
    /\ ret = Idle
    /\ \E request \in requests, env \in envs :
          LET game_state == DictGet(request, "gameState", EmptyDict)
              home_team  == DictGet(game_state, "homeTeam", "HOME")
              away_team  == DictGet(game_state, "awayTeam", "AWAY")
          IN  /\ SnapshotCount(contract_price_snapshots,
                               home_team \o "_" \o away_team) < max_snapshots
              /\ SyncTeams(request, game_state, home_team, away_team, env)
    /\ UNCHANGED <<play_transition_data, in_play_percentage_data,
                   win_percentage_data, now>>

\* the clock moves on to one of the times
TimePasses(times) ==
    /\ ret = Idle
    /\ \E t \in times : t > now /\ now' = t
    /\ UNCHANGED <<play_transition_data, in_play_percentage_data, game_balances,
                   win_percentage_data, current_game_states, cached_tokens,
                   contract_price_snapshots, ret>>

\* the caller takes the result; the next request may start
Return ==
    /\ ret # Idle
    /\ ret' = Idle
    /\ UNCHANGED <<play_transition_data, in_play_percentage_data, game_balances,
                   win_percentage_data, market_vars>>

Next ==
    \/ load_play_transition_data(CsvFiles, {EmptyDict})
    \/ CallThresholds
    \/ CallOptions
    \/ Return

Spec == Init /\ [][Next]_vars

\* the Expected Value Engine over both data files
NextEV ==
    \/ load_play_transition_data(EvCsvFiles, JsonFiles)
    \/ CallExpectedValue
    \/ Return

SpecEV == Init /\ [][NextEV]_vars

\* the ledgers next to the three read-only operations
NextLedger ==
    \/ load_play_transition_data(LedgerCsvFiles, JsonFiles)
    \/ \E game_id \in GameIds : initialize_game_balance(game_id)
    \/ \E game_id \in GameIds, action \in TradeActions, team \in Teams,
          shares \in ShareCounts, price_per_share \in Prices :
          simulate_contract_transaction(game_id, action, team, shares,
                                        price_per_share, "expected value")
    \/ CallThresholds
    \/ CallOptions
    \/ CallExpectedValue
    \/ Return

SpecLedger == Init /\ [][NextLedger]_vars

\* contract decisions over the stats file and the ledgers
NextDecision ==
    \/ load_win_percentage_data(WinFiles)
    \/ \E game_id \in GameIds, action \in TradeActions, team \in Teams,
          shares \in DecisionShareCounts, price_per_share \in Prices :
          simulate_contract_transaction(game_id, action, team, shares,
                                        price_per_share, "manual")
    \/ \E request \in ContractDecisionRequests : calculate_contract_decision(request)
    \/ Return

SpecDecision == Init /\ [][NextDecision]_vars

\* the Threshold Calculator over the plays of the threshold rules
NextThresholds ==
    \/ load_play_transition_data(ThresholdCsvFiles, {EmptyDict})
    \/ CallThresholds
    \/ Return

SpecThresholds == Init /\ [][NextThresholds]_vars

\* the token cache over two syncs of a day and one of the next day
NextTokens ==
    \/ sync_game_state(TokenRequests, {MarketUp, MarketDown}, MaxSnapshots)
    \/ TimePasses({3, MinutesPerDay})
    \/ Return

SpecTokens == Init /\ [][NextTokens]_vars

\* the trades of sync_game_state over ledgers with and without holdings
NextTrade ==
    \/ load_play_transition_data(TradeCsvFiles, {EmptyDict})
    \/ \E order \in TradeSetups :
          simulate_contract_transaction("NYY_BOS", "BUY", order.team, order.shares,
                                        Th(600), "manual")
    \/ sync_game_state(TradeRequests, {MarketUp, MarketMoved}, MaxSnapshots)
    \/ Return

SpecTrade == Init /\ [][NextTrade]_vars

\* the price guard over one snapshot more, taken at once or six minutes apart
NextGuard ==
    \/ load_play_transition_data(TradeCsvFiles, {EmptyDict})
    \/ sync_game_state(GuardRequests, {MarketUp, MarketMoved}, MaxSnapshots + 1)
    \/ TimePasses({3, 5})
    \/ Return

SpecGuard == Init /\ [][NextGuard]_vars

(***************************************************************************)
(* Properties.                                                             *)
(***************************************************************************)
IsCall(op) == ret # Idle /\ ret.op = op

\* the (bases, outs) a game_state dict stands for
BaseTupleOf(game_state) ==
    LET bases == DictGet(game_state, "bases", EmptyDict)
    IN  <<DictGet(bases, "first", FALSE), DictGet(bases, "second", FALSE),
          DictGet(bases, "third", FALSE)>>

OutsOf(game_state) == DictGet(game_state, "outs", 0)

\* the rows of the Outcome Table whose start state is exactly that of game_state
RowsOfState(data, game_state) ==
    IF data = None THEN <<>>
    ELSE SelectSeq(data.rows,
                   LAMBDA row : /\ row.start_base_parsed = BaseTupleOf(game_state)
                                /\ row.start_outs = OutsOf(game_state))

KnownQualities == {"very-bad", "bad", "neutral", "good", "very-good"}

\* C1: calculate_quality_thresholds returns None whenever the Outcome Table has
\* no row for the (bases, outs) asked for: the state is absent, outs is outside
\* 0..2, or the table was never loaded.
C1_NoDataGivesNone ==
    (IsCall("calculate_quality_thresholds")
        /\ RowsOfState(play_transition_data, ret.game_state) = <<>>)
    => ret.result = None

\* C1 witness: thresholds were asked of a loaded, non-empty table for a state
\* with outs = 3 that it has no row for, and None came back.
C1_Witness ==
    /\ IsCall("calculate_quality_thresholds")
    /\ play_transition_data # None
    /\ play_transition_data.rows # <<>>
    /\ OutsOf(ret.game_state) = 3
    /\ RowsOfState(play_transition_data, ret.game_state) = <<>>
    /\ ret.result = None

\* C3: with two outs and at least one outcome that gains an out without a run,
\* the thresholds have badMin = maxOneOutNoRun = maxOutNoRun.
C3_TwoOutCollapse ==
    (IsCall("calculate_quality_thresholds")
        /\ OutsOf(ret.game_state) = 2
        /\ \E i \in 1..Len(RowsOfState(play_transition_data, ret.game_state)) :
              LET row == RowsOfState(play_transition_data, ret.game_state)[i]
              IN  row.outs > 0 /\ row.runs_scored = 0)
    => /\ ret.result # None
       /\ ret.result.thresholds.badMin = ret.result.thresholds.maxOneOutNoRun
       /\ ret.result.thresholds.maxOneOutNoRun = ret.result.thresholds.maxOutNoRun

\* C3 witness: a two-out state with a double play below a plain out, where the
\* rule for the other out counts would have put badMin elsewhere.
C3_Witness ==
    /\ IsCall("calculate_quality_thresholds")
    /\ OutsOf(ret.game_state) = 2
    /\ ret.result # None
    /\ ret.result.thresholds.hasDoublePlay
    /\ ret.result.thresholds.maxOutNoRun # FMinusOne
    /\ ret.result.thresholds.badMin = ret.result.thresholds.maxOutNoRun

\* C4 (as claimed): with two outs, the 'bad' selection equals the 'very-bad'
\* selection.
C4_BadEqualsVeryBad ==
    (IsCall("get_play_options_by_quality")
        /\ ret.quality = "bad"
        /\ OutsOf(ret.game_state) = 2)
    => ret.result = get_play_options_by_quality(play_transition_data, "very-bad",
                                                ret.game_state)

\* C5 (as claimed): when the outcomes of a state span norm values from -1 to 1,
\* every outcome of the state is inside at least one of the five bands.
C5_BandCoverage ==
    (IsCall("calculate_quality_thresholds") /\ ret.result # None)
    => LET rows == RowsOfState(play_transition_data, ret.game_state)
       IN  ((\E i \in 1..Len(rows) : rows[i].norm_value = FMinusOne)
            /\ (\E i \in 1..Len(rows) : rows[i].norm_value = FOne))
           => \A i \in 1..Len(rows) :
                 \E quality \in KnownQualities :
                    InBand(quality, ret.result.thresholds, rows[i].norm_value)

\* the outcomes of the state whose norm value lies in the band, bounds included
BandMin(quality, thresholds) ==
    CASE quality = "very-bad"  -> FMinusOne
      [] quality = "bad"       -> thresholds.badMin
      [] quality = "neutral"   -> thresholds.minOneOutNoRun
      [] quality = "good"      -> thresholds.goodMin
      [] quality = "very-good" -> thresholds.veryGoodMin

BandMax(quality, thresholds) ==
    CASE quality = "very-bad"  -> thresholds.maxOutNoRun
      [] quality = "bad"       -> thresholds.maxOneOutNoRun
      [] quality = "neutral"   -> thresholds.maxNoOutsNoRuns
      [] quality = "good"      -> thresholds.goodMax
      [] quality = "very-good" -> thresholds.veryGoodMax

InRangeOutcomes(data, quality, game_state) ==
    LET ranges == calculate_quality_thresholds(data, game_state)
    IN  IF ranges = None THEN <<>>
        ELSE SelectSeq(Map(RowToOutcome, RowsOfState(data, game_state)),
                       LAMBDA o :
                          /\ FCmp(BandMin(quality, ranges.thresholds), o.normValue) <= 0
                          /\ FCmp(o.normValue, BandMax(quality, ranges.thresholds)) <= 0)

Count(xs, x) == Cardinality({i \in 1..Len(xs) : xs[i] = x})

Min(a, b) == IF a < b THEN a ELSE b

\* C7: for a known band the filter returns the min(10, n) highest of the n
\* in-range outcomes of the state, highest first: each returned outcome is an
\* in-range outcome (no more often than the table has it), the norm values do
\* not increase along the result, and every in-range outcome above the lowest
\* returned one is returned.
C7_TopTenInRange ==
    (IsCall("get_play_options_by_quality") /\ ret.quality \in KnownQualities)
    => LET in_range == InRangeOutcomes(play_transition_data, ret.quality,
                                       ret.game_state)
           result   == ret.result
       IN  /\ Len(result) = Min(MaxOptions, Len(in_range))
           /\ \A i \in 1..Len(result) :
                 Count(result, result[i]) <= Count(in_range, result[i])
           /\ \A i \in 1..(Len(result) - 1) :
                 FCmp(result[i + 1].normValue, result[i].normValue) <= 0
           /\ \A j \in 1..Len(in_range) :
                 (result # <<>>
                    /\ FCmp(result[Len(result)].normValue, in_range[j].normValue) < 0)
                 => Count(result, in_range[j]) = Count(in_range, in_range[j])

\* C7 witness: a known band with more than ten in-range outcomes of different
\* norm values, of which ten came back and the lowest did not.
C7_Witness ==
    /\ IsCall("get_play_options_by_quality")
    /\ ret.quality \in KnownQualities
    /\ Len(ret.result) = MaxOptions
    /\ LET in_range == InRangeOutcomes(play_transition_data, ret.quality,
                                       ret.game_state)
       IN  /\ Len(in_range) > MaxOptions
           /\ \E j \in 1..Len(in_range) :
                 /\ Count(ret.result, in_range[j]) = 0
                 /\ FCmp(in_range[j].normValue, ret.result[MaxOptions].normValue) < 0

\* the table cut down to the rows of one start state
OnlyState(data, game_state) ==
    IF data = None THEN None ELSE DataFrame(RowsOfState(data, game_state))

\* C8: the thresholds and the band selections of a state are those of the
\* table cut down to the rows of that state, so two tables that agree on
\* these rows give equal results whatever their other rows are.
C8_NoCrossStateContamination ==
    /\ IsCall("calculate_quality_thresholds")
       => ret.result = calculate_quality_thresholds(
                          OnlyState(play_transition_data, ret.game_state),
                          ret.game_state)
    /\ IsCall("get_play_options_by_quality")
       => ret.result = get_play_options_by_quality(
                          OnlyState(play_transition_data, ret.game_state),
                          ret.quality, ret.game_state)

\* C8 witness: thresholds of a state computed from a table that also holds
\* rows of a state with the same bases and other outs, and rows of a state with
\* the same outs and other bases.
C8_Witness ==
    /\ IsCall("calculate_quality_thresholds")
    /\ ret.result # None
    /\ \E i \in 1..Len(play_transition_data.rows) :
          LET row == play_transition_data.rows[i]
          IN  /\ row.start_base_parsed = BaseTupleOf(ret.game_state)
              /\ row.start_outs # OutsOf(ret.game_state)
    /\ \E i \in 1..Len(play_transition_data.rows) :
          LET row == play_transition_data.rows[i]
          IN  /\ row.start_base_parsed # BaseTupleOf(ret.game_state)
              /\ row.start_outs = OutsOf(ret.game_state)

\* the outcomes of the state that pass the membership test of the quality: all
\* of them for a name that is none of the five bands
PassingOutcomes(data, quality, game_state) ==
    IF quality \in KnownQualities THEN InRangeOutcomes(data, quality, game_state)
    ELSE Map(RowToOutcome, RowsOfState(data, game_state))

\* the raw probabilities of the outcomes the filter returns
SelectedRaw(data, probs, quality, game_state) ==
    Map(LAMBDA o : get_real_probability_for_outcome(probs, game_state, o),
        get_play_options_by_quality(data, quality, game_state))

\* C2: calculate_expected_value_for_quality always returns a result and never
\* lets an exception out; when the state has no outcomes, the thresholds are
\* None, no outcome passes the quality's test, or the raw probabilities of the
\* selected outcomes sum to 0, the result has an 'error' and expected_value 0.
C2_NoDataGivesErrorResult ==
    IsCall("calculate_expected_value_for_quality")
    => /\ ~ IsRaise(ret.result)
       /\ "expected_value" \in DOMAIN ret.result
       /\ (\/ RowsOfState(play_transition_data, ret.game_state) = <<>>
           \/ calculate_quality_thresholds(play_transition_data, ret.game_state) = None
           \/ PassingOutcomes(play_transition_data, ret.quality, ret.game_state) = <<>>
           \/ sum(SelectedRaw(play_transition_data, in_play_percentage_data,
                              ret.quality, ret.game_state)) = FZero)
          => /\ "error" \in DOMAIN ret.result
             /\ ret.result.expected_value = FZero

\* C2 witness: outcomes were selected, every one of them has probability 0 in
\* filtered_in_play.json, and the result reports that no probability data is
\* available.
C2_Witness ==
    /\ IsCall("calculate_expected_value_for_quality")
    /\ PassingOutcomes(play_transition_data, ret.quality, ret.game_state) # <<>>
    /\ DOMAIN in_play_percentage_data # {}
    /\ sum(SelectedRaw(play_transition_data, in_play_percentage_data,
                       ret.quality, ret.game_state)) = FZero
    /\ ret.result.error = "No real probability data available"
    /\ ret.result.total_outcomes > 0

\* the call computed weights: the raw probabilities are numbers with a nonzero sum
HasNonzeroRawSum ==
    /\ IsCall("calculate_expected_value_for_quality")
    /\ LET raws == SelectedRaw(play_transition_data, in_play_percentage_data,
                               ret.quality, ret.game_state)
       IN  raws # <<>> /\ ~ IsRaise(sum(raws)) /\ sum(raws) # FZero

NormalizedProbabilityOf(o) == o.normalized_probability

\* each weight is the outcome's raw probability divided by the sum of the raw
\* probabilities
WeightsAreRawOverSum ==
    LET raws == SelectedRaw(play_transition_data, in_play_percentage_data,
                            ret.quality, ret.game_state)
        os   == ret.result.outcomes
    IN  /\ "error" \notin DOMAIN ret.result
        /\ Len(os) = Len(raws)
        /\ \A i \in 1..Len(os) :
              /\ os[i].raw_real_probability = raws[i]
              /\ os[i].normalized_probability = FDiv(raws[i], sum(raws))


\* 2^-52, the gap between 1.0 and the next double
FEpsilon == [s |-> 0, e |-> -104, m |-> BShl(<<1>>, MantBits - 1)]

\* the rounding of the total, of each quotient and of their sum, for at most
\* MaxOptions non-negative probabilities
WeightTolerance == FMul(FFromInt(MaxOptions), FEpsilon)

\* C6 (as claimed): with a nonzero raw sum, each weight is raw / sum and the
\* weights sum to exactly 1.
C6_WeightsSumToExactlyOne ==
    HasNonzeroRawSum
    => /\ WeightsAreRawOverSum
       /\ sum(Map(NormalizedProbabilityOf, ret.result.outcomes)) = FOne

\* C6 (amended): with a nonzero raw sum, each weight is raw / sum and the
\* weights sum to 1 within floating-point tolerance: the sum is at most
\* 10 * 2^-52 away from 1.
C6_WeightsSumToOneWithinTolerance ==
    HasNonzeroRawSum
    => /\ WeightsAreRawOverSum
       /\ FLe(FAbs(FAdd(sum(Map(NormalizedProbabilityOf, ret.result.outcomes)),
                        FMinusOne)),
              WeightTolerance)

\* C6 witness: two or more outcomes with different probabilities from
\* filtered_in_play.json were weighted, and the doubles that are their weights
\* do not sum to 1.0.
C6_Witness ==
    /\ HasNonzeroRawSum
    /\ DOMAIN in_play_percentage_data # {}
    /\ Len(ret.result.outcomes) >= 2
    /\ \E i, j \in 1..Len(ret.result.outcomes) :
          ret.result.outcomes[i].raw_real_probability
             # ret.result.outcomes[j].raw_real_probability
    /\ sum(Map(NormalizedProbabilityOf, ret.result.outcomes)) # FOne

\* sum of weight * value over os, from the left, starting from 0.0
RECURSIVE WeightedValues(_, _, _, _, _)
WeightedValues(os, raws, total, i, acc) ==
    IF i > Len(os) THEN acc
    ELSE WeightedValues(os, raws, total, i + 1,
                        FAdd(acc, FMul(FDiv(raws[i], total), os[i].value)))

\* C9: a result without 'error' has expected_value equal to the sum, over
\* exactly the outcomes the filter returns for the quality and state, of
\* normalized weight times the outcome's 'value', and total_outcomes equal to
\* the number of those outcomes.
C9_ExpectedValueIsWeightedValue ==
    (IsCall("calculate_expected_value_for_quality")
        /\ "error" \notin DOMAIN ret.result)
    => LET os   == get_play_options_by_quality(play_transition_data, ret.quality,
                                               ret.game_state)
           raws == SelectedRaw(play_transition_data, in_play_percentage_data,
                               ret.quality, ret.game_state)
       IN  /\ ret.result.expected_value
                = WeightedValues(os, raws, sum(raws), 1, FZero)
           /\ ret.result.total_outcomes = Len(os)

\* C9 witness: the state has more outcomes passing the test than the filter
\* returns, ten were weighted, and the expected value differs from the one
\* their norm values would give.
C9_Witness ==
    /\ IsCall("calculate_expected_value_for_quality")
    /\ "error" \notin DOMAIN ret.result
    /\ Len(PassingOutcomes(play_transition_data, ret.quality, ret.game_state))
          > MaxOptions
    /\ ret.result.total_outcomes = MaxOptions
    /\ ret.result.expected_value # FZero
    /\ \E i \in 1..Len(ret.result.outcomes) :
          ret.result.outcomes[i].value # ret.result.outcomes[i].normValue

ReadOnlyOperations ==
    {"calculate_quality_thresholds", "get_play_options_by_quality",
     "calculate_expected_value_for_quality"}

\* C10: a call of calculate_quality_thresholds, get_play_options_by_quality or
\* calculate_expected_value_for_quality leaves the Outcome Table, the
\* probability table and every game ledger as they were, so any sequence of
\* such calls does.
C10_CallsLeaveSharedStateUnchanged ==
    [][(ret = Idle /\ ret' # Idle /\ ret'.op \in ReadOnlyOperations)
       => UNCHANGED <<play_transition_data, in_play_percentage_data,
                      game_balances>>]_vars

\* C10 witness: an expected value was computed from a loaded table and loaded
\* probabilities while a game had a ledger with a recorded transaction.
C10_Witness ==
    /\ IsCall("calculate_expected_value_for_quality")
    /\ "error" \notin DOMAIN ret.result
    /\ play_transition_data # None
    /\ DOMAIN in_play_percentage_data # {}
    /\ \E game_id \in DOMAIN game_balances :
          game_balances[game_id].history # <<>>

\* the call that has just been made
Called(op) == ret = Idle /\ ret' # Idle /\ ret'.op = op

\* the ledger a call for game_id starts from: the game's own, or the one
\* created for a game not yet known
LedgerBefore(game_id) ==
    IF game_id \in DOMAIN game_balances THEN game_balances[game_id]
    ELSE [balance           |-> FFromInt(1000),
          contracts         |-> [home |-> 0, away |-> 0],
          history           |-> <<>>,
          total_invested    |-> FZero,
          total_profit_loss |-> FZero]

OtherTeam(team) == IF team = "home" THEN "away" ELSE "home"

\* C11: a BUY whose total cost, shares x price_per_share, exceeds the game's
\* current balance returns success = False with an 'Insufficient balance'
\* error and leaves the game's balance, contracts, total_invested and history
\* as they were.
C11_InsufficientBuyRefused ==
    [][(Called("simulate_contract_transaction")
          /\ ret'.action = "BUY"
          /\ FCmp(LedgerBefore(ret'.game_id).balance,
                  FMul(FFromInt(ret'.shares), ret'.price_per_share)) < 0)
       => /\ ret'.result.success = FALSE
          /\ ret'.result.error = "Insufficient balance"
          /\ game_balances'[ret'.game_id].balance
                = LedgerBefore(ret'.game_id).balance
          /\ game_balances'[ret'.game_id].contracts
                = LedgerBefore(ret'.game_id).contracts
          /\ game_balances'[ret'.game_id].total_invested
                = LedgerBefore(ret'.game_id).total_invested
          /\ game_balances'[ret'.game_id].history
                = LedgerBefore(ret'.game_id).history]_vars

\* C11 witness: a game that had bought before was asked for a BUY costing more
\* than its balance, and the call was refused for insufficient balance.
C11_Witness ==
    /\ IsCall("simulate_contract_transaction")
    /\ ret.action = "BUY"
    /\ game_balances[ret.game_id].history # <<>>
    /\ FCmp(game_balances[ret.game_id].balance,
            FMul(FFromInt(ret.shares), ret.price_per_share)) < 0
    /\ ret.result.success = FALSE
    /\ ret.result.error = "Insufficient balance"

\* C12: a SELL for a team with a positive holding sells the whole holding
\* whatever 'shares' says: the team's contracts become 0, the balance grows by
\* holding x price_per_share, the other team's holding stays, and one history
\* entry recording the holding is appended; a SELL with a holding <= 0 fails
\* and changes nothing.
C12_SellSellsWholeHolding ==
    [][(Called("simulate_contract_transaction") /\ ret'.action = "SELL")
       => LET before  == LedgerBefore(ret'.game_id)
              after   == game_balances'[ret'.game_id]
              holding == before.contracts[ret'.team]
          IN  IF holding > 0
              THEN /\ ret'.result.success
                   /\ after.contracts[ret'.team] = 0
                   /\ after.contracts[OtherTeam(ret'.team)]
                         = before.contracts[OtherTeam(ret'.team)]
                   /\ after.balance
                         = FAdd(before.balance,
                                FMul(FFromInt(holding), ret'.price_per_share))
                   /\ Len(after.history) = Len(before.history) + 1
                   /\ SubSeq(after.history, 1, Len(before.history)) = before.history
                   /\ after.history[Len(after.history)].action = "SELL"
                   /\ after.history[Len(after.history)].team = ret'.team
                   /\ after.history[Len(after.history)].shares = holding
              ELSE /\ ret'.result.success = FALSE
                   /\ after = before]_vars

\* C12 witness: a SELL that named another number of shares than the team's
\* holding sold the whole holding.
C12_Witness ==
    /\ IsCall("simulate_contract_transaction")
    /\ ret.action = "SELL"
    /\ ret.result.success
    /\ ret.result.shares # ret.shares
    /\ ret.result.shares > 0
    /\ game_balances[ret.game_id].contracts[ret.team] = 0

\* C13: initialize_game_balance gives a game not yet known a ledger with
\* balance 1000, no home or away contracts and an empty history; for a known
\* game it returns the existing ledger and resets nothing.  No other game's
\* ledger changes.
C13_InitializeIsIdempotent ==
    [][Called("initialize_game_balance")
       => /\ ret'.game_id \in DOMAIN game_balances'
          /\ ret'.result = game_balances'[ret'.game_id]
          /\ ret'.game_id \notin DOMAIN game_balances
             => /\ ret'.result.balance = FFromInt(1000)
                /\ ret'.result.contracts = [home |-> 0, away |-> 0]
                /\ ret'.result.history = <<>>
          /\ ret'.game_id \in DOMAIN game_balances
             => game_balances' = game_balances
          /\ \A g \in DOMAIN game_balances :
                g \in DOMAIN game_balances' /\ game_balances'[g] = game_balances[g]]_vars

\* C13 witness: initialize_game_balance was called for a game that had traded,
\* and returned its ledger with the trade still in it.
C13_Witness ==
    /\ IsCall("initialize_game_balance")
    /\ ret.result.history # <<>>
    /\ ret.result.balance # FFromInt(1000)
    /\ ret.result = game_balances[ret.game_id]

\* C14 (as claimed): when the request leaves gameId out, calculate_contract_decision
\* uses '<homeTeam>_<awayTeam>' as the game id: it raises no error, the game of
\* that id has a ledger afterwards, and the decision is the one made for the
\* ledger of that id, as when the id is given in the request.
C14_OmittedGameIdUsesTeamNames ==
    (IsCall("calculate_contract_decision") /\ "gameId" \notin DOMAIN ret.request)
    => /\ ~ IsRaise(ret.result)
       /\ GameIdFromRequest(ret.request) \in DOMAIN game_balances
       /\ ret.result = DecisionFor(win_percentage_data, ret.request,
                                   game_balances[GameIdFromRequest(ret.request)])

(***************************************************************************)
(* Properties of the thresholds, stated over the rows of the Outcome Table *)
(* that belong to the state asked for.                                     *)
(***************************************************************************)
StateRows == RowsOfState(play_transition_data, ret.game_state)

ThresholdsReturned ==
    IsCall("calculate_quality_thresholds") /\ StateRows # <<>> /\ ret.result # None

\* v is the least norm_value of the rows numbered in idxs
IsMinNorm(v, rows, idxs) ==
    /\ \E i \in idxs : rows[i].norm_value = v
    /\ \A i \in idxs : FLe(v, rows[i].norm_value)

\* v is the greatest norm_value of the rows numbered in idxs
IsMaxNorm(v, rows, idxs) ==
    /\ \E i \in idxs : rows[i].norm_value = v
    /\ \A i \in idxs : FLe(rows[i].norm_value, v)

\* v stands at index k (from 0) of the ascending sort of the norm_values of the
\* rows numbered in idxs
IsNormAtIndex(v, rows, idxs, k) ==
    /\ \E i \in idxs : rows[i].norm_value = v
    /\ Cardinality({i \in idxs : FLt(rows[i].norm_value, v)}) <= k
    /\ k < Cardinality({i \in idxs : FLe(rows[i].norm_value, v)})

DoublePlayRows(rows) ==
    {i \in 1..Len(rows) : rows[i].outs >= 2 /\ rows[i].runs_scored = 0}

OneOutNoRunRows(rows) ==
    {i \in 1..Len(rows) : rows[i].outs = 1 /\ rows[i].runs_scored = 0}

NoOutNoRunRows(rows) ==
    {i \in 1..Len(rows) : rows[i].outs = 0 /\ rows[i].runs_scored = 0}

NeutralCandidateRows(rows) ==
    {i \in 1..Len(rows) : rows[i].outs <= 1 /\ rows[i].runs_scored <= 1}

NoOutRows(rows) == {i \in 1..Len(rows) : rows[i].outs = 0}

GoodCandidateRows(rows) ==
    {i \in 1..Len(rows) :
        \/ rows[i].runs_scored >= 1 /\ rows[i].outs <= 1
        \/ rows[i].outs = 0 /\ rows[i].end_base_parsed[1]
        \/ rows[i].outs = 0 /\ rows[i].runs_scored = 0}

\* the number of bases occupied in a (first, second, third) tuple
Occupied(tuple) == Cardinality({b \in 1..3 : tuple[b]})

HomeRunLike(start, row) ==
    Occupied(row.end_base_parsed) = 0 /\ row.runs_scored > Occupied(start)

TripleLike(start, row) ==
    /\ row.end_base_parsed[3] /\ ~ start[3]
    /\ (~ start[2] \/ ~ row.end_base_parsed[1])

GoodMaxRows(start, rows) ==
    {i \in 1..Len(rows) : ~ HomeRunLike(start, rows[i]) /\ ~ TripleLike(start, rows[i])}

CleanTriple(start, row) ==
    /\ row.end_base_parsed = <<FALSE, FALSE, TRUE>>
    /\ ~ start[3]
    /\ (Occupied(start) = 0 \/ row.runs_scored = Occupied(start))

VeryGoodRows(start, rows) ==
    {i \in 1..Len(rows) :
        rows[i].outs = 0 /\ (rows[i].runs_scored >= 1 \/ CleanTriple(start, rows[i]))}

BadMinRule(rows, t) ==
    /\ t.hasDoublePlay <=> DoublePlayRows(rows) # {}
    /\ IF OneOutNoRunRows(rows) # {}
       THEN IsMinNorm(t.minOneOutNoRun, rows, OneOutNoRunRows(rows))
       ELSE t.minOneOutNoRun = FFromInt(-1)
    /\ IF DoublePlayRows(rows) # {}
       THEN \E v \in {rows[i].norm_value : i \in DoublePlayRows(rows)} :
               /\ IsMaxNorm(v, rows, DoublePlayRows(rows))
               /\ t.badMin = FAdd(v, Th(1))
       ELSE t.badMin = t.minOneOutNoRun

\* C15: for outs other than 2, badMin is the greatest norm_value of the double
\* plays (two or more outs gained, no run) plus 0.001 whenever there is a
\* double play, that greatest value being -1 included; only without a double
\* play is it minOneOutNoRun, the least norm_value of the one-out no-run
\* outcomes or -1 when there are none.
C15_BadMinFromDoublePlay ==
    (ThresholdsReturned /\ OutsOf(ret.game_state) # 2)
    => BadMinRule(StateRows, ret.result.thresholds)

\* C15 witness: the only double plays have norm_value -1, there is a one-out
\* no-run outcome above them, and badMin is -0.999 and not minOneOutNoRun.
C15_Witness ==
    /\ ThresholdsReturned
    /\ OutsOf(ret.game_state) # 2
    /\ DoublePlayRows(StateRows) # {}
    /\ IsMaxNorm(FFromInt(-1), StateRows, DoublePlayRows(StateRows))
    /\ OneOutNoRunRows(StateRows) # {}
    /\ ret.result.thresholds.badMin = FAdd(FFromInt(-1), Th(1))
    /\ ret.result.thresholds.badMin # ret.result.thresholds.minOneOutNoRun

MaxNoOutsNoRunsRule(rows, v) ==
    IF NoOutNoRunRows(rows) # {} THEN IsMaxNorm(v, rows, NoOutNoRunRows(rows))
    ELSE IF NeutralCandidateRows(rows) # {}
    THEN IsNormAtIndex(v, rows, NeutralCandidateRows(rows),
                       Cardinality(NeutralCandidateRows(rows)) \div 2)
    ELSE v = FFromInt(0)

\* C16: maxNoOutsNoRuns is the greatest norm_value of the outcomes with no out
\* gained and no run; without any, it is the norm_value at index floor(n/2) of
\* the ascending sort of the n outcomes with at most one out and at most one
\* run, hence the norm_value of one of them; without any of those, it is 0.0.
C16_MaxNoOutsNoRunsLadder ==
    ThresholdsReturned
    => MaxNoOutsNoRunsRule(StateRows, ret.result.thresholds.maxNoOutsNoRuns)

\* C16 witness: no outcome has no out and no run, three or more neutral
\* candidates do not all share a norm_value, and maxNoOutsNoRuns is neither
\* their least nor their greatest.
C16_Witness ==
    /\ ThresholdsReturned
    /\ NoOutNoRunRows(StateRows) = {}
    /\ Cardinality(NeutralCandidateRows(StateRows)) >= 3
    /\ ~ IsMinNorm(ret.result.thresholds.maxNoOutsNoRuns, StateRows,
                   NeutralCandidateRows(StateRows))
    /\ ~ IsMaxNorm(ret.result.thresholds.maxNoOutsNoRuns, StateRows,
                   NeutralCandidateRows(StateRows))

\* the median fallback is taken, over an even number of neutral candidates
EvenMedianFallback(rows) ==
    /\ NoOutNoRunRows(rows) = {}
    /\ NeutralCandidateRows(rows) # {}
    /\ Cardinality(NeutralCandidateRows(rows)) % 2 = 0

\* v is the smaller of the two middle norm_values of the 2h rows numbered in idxs
IsLowerMedian(v, rows, idxs, h) ==
    /\ \E i \in idxs : rows[i].norm_value = v
    /\ Cardinality({i \in idxs : FLe(rows[i].norm_value, v)}) >= h
    /\ Cardinality({i \in idxs : FLe(v, rows[i].norm_value)}) >= h + 1

\* v is the larger of the two middle norm_values of the 2h rows numbered in idxs
IsUpperMedian(v, rows, idxs, h) ==
    /\ \E i \in idxs : rows[i].norm_value = v
    /\ Cardinality({i \in idxs : FLe(rows[i].norm_value, v)}) >= h + 1
    /\ Cardinality({i \in idxs : FLe(v, rows[i].norm_value)}) >= h

\* C17 (as claimed): when the median fallback is taken over an even number of
\* neutral candidates, maxNoOutsNoRuns is the lower median of their
\* norm_values, the smaller of the two middle elements of the ascending sort.
C17_EvenFallbackIsLowerMedian ==
    (ThresholdsReturned /\ EvenMedianFallback(StateRows))
    => IsLowerMedian(ret.result.thresholds.maxNoOutsNoRuns, StateRows,
                     NeutralCandidateRows(StateRows),
                     Cardinality(NeutralCandidateRows(StateRows)) \div 2)

\* C17 (corrected): when the median fallback is taken over an even number of
\* neutral candidates, maxNoOutsNoRuns is the upper median of their
\* norm_values, the larger of the two middle elements of the ascending sort.
C17_EvenFallbackIsUpperMedian ==
    (ThresholdsReturned /\ EvenMedianFallback(StateRows))
    => IsUpperMedian(ret.result.thresholds.maxNoOutsNoRuns, StateRows,
                     NeutralCandidateRows(StateRows),
                     Cardinality(NeutralCandidateRows(StateRows)) \div 2)

\* C17 witness: the fallback is taken over four neutral candidates whose two
\* middle norm_values differ, and the larger of the two is returned.
C17_Witness ==
    /\ ThresholdsReturned
    /\ EvenMedianFallback(StateRows)
    /\ Cardinality(NeutralCandidateRows(StateRows)) = 4
    /\ IsUpperMedian(ret.result.thresholds.maxNoOutsNoRuns, StateRows,
                     NeutralCandidateRows(StateRows), 2)
    /\ ~ IsLowerMedian(ret.result.thresholds.maxNoOutsNoRuns, StateRows,
                       NeutralCandidateRows(StateRows), 2)

GoodMinRule(rows, v) ==
    IF GoodCandidateRows(rows) # {} THEN IsMinNorm(v, rows, GoodCandidateRows(rows))
    ELSE IF NoOutRows(rows) # {} THEN IsMinNorm(v, rows, NoOutRows(rows))
    ELSE v = FNeg(Th(500))

\* C18: goodMin is the least norm_value of the good candidates (a run with at
\* most one out, or no out with first base occupied at the end, or no out and
\* no run); without a good candidate it is the least norm_value of the
\* outcomes with no out gained, and without any of those it is -0.5.
C18_GoodMinOverCandidates ==
    ThresholdsReturned => GoodMinRule(StateRows, ret.result.thresholds.goodMin)

\* C18 witness: candidates of two kinds, a run-scoring one and a no-out no-run
\* one, and an outcome that is no candidate with a norm_value below goodMin.
C18_Witness ==
    /\ ThresholdsReturned
    /\ \E i \in GoodCandidateRows(StateRows) : StateRows[i].runs_scored >= 1
    /\ \E i \in GoodCandidateRows(StateRows) : StateRows[i].runs_scored = 0
    /\ \E i \in 1..Len(StateRows) :
          /\ i \notin GoodCandidateRows(StateRows)
          /\ FLt(StateRows[i].norm_value, ret.result.thresholds.goodMin)

GoodMaxRule(start, rows, v) ==
    /\ IF GoodMaxRows(start, rows) # {} THEN IsMaxNorm(v, rows, GoodMaxRows(start, rows))
       ELSE v = FFromInt(-1)
    /\ \A i \in 1..Len(rows) :
          (/\ rows[i].end_base_parsed[3] /\ ~ start[3]
           /\ start[2] /\ rows[i].end_base_parsed[1])
          => FLe(rows[i].norm_value, v)

\* C19: goodMax is the greatest norm_value of the outcomes that are neither
\* home-run-like (no base occupied at the end and more runs than bases
\* occupied at the start) nor triple-like (third occupied at the end but not
\* at the start, with second empty at the start or first empty at the end),
\* and -1 when every outcome is excluded; an outcome that newly occupies third
\* with second occupied at the start and first occupied at the end is kept.
C19_GoodMaxExclusions ==
    ThresholdsReturned
    => GoodMaxRule(BaseTupleOf(ret.game_state), StateRows,
                   ret.result.thresholds.goodMax)

\* C19 witness: with a runner on second at the start, a play that ends with
\* runners on first and third gives goodMax, while a play with a higher
\* norm_value that ends with third alone occupied is left out.
C19_Witness ==
    /\ ThresholdsReturned
    /\ BaseTupleOf(ret.game_state) = <<FALSE, TRUE, FALSE>>
    /\ \E i \in 1..Len(StateRows) :
          /\ StateRows[i].end_base_parsed = <<TRUE, FALSE, TRUE>>
          /\ StateRows[i].norm_value = ret.result.thresholds.goodMax
    /\ \E i \in 1..Len(StateRows) :
          /\ StateRows[i].end_base_parsed = <<FALSE, FALSE, TRUE>>
          /\ FLt(ret.result.thresholds.goodMax, StateRows[i].norm_value)

VeryGoodRule(start, rows, t) ==
    /\ IF VeryGoodRows(start, rows) # {}
       THEN IsMinNorm(t.veryGoodMin, rows, VeryGoodRows(start, rows))
       ELSE t.veryGoodMin = FFromInt(1)
    /\ t.veryGoodMax = FFromInt(1)
    /\ FLe(t.veryGoodMin, t.veryGoodMax)

\* C20: veryGoodMin is the least norm_value of the outcomes with no out gained
\* that score a run or are a clean triple (third alone occupied at the end,
\* third empty at the start, and no runner at the start or as many runs as
\* runners at the start), and 1.0 when none qualifies; veryGoodMax is 1.0, so
\* veryGoodMin <= veryGoodMax.
C20_VeryGoodBand ==
    ThresholdsReturned
    => VeryGoodRule(BaseTupleOf(ret.game_state), StateRows, ret.result.thresholds)

\* C20 witness: on empty bases a clean triple that scores nobody gives
\* veryGoodMin, below a run-scoring outcome and below 1.0.
C20_Witness ==
    /\ ThresholdsReturned
    /\ Occupied(BaseTupleOf(ret.game_state)) = 0
    /\ \E i \in VeryGoodRows(BaseTupleOf(ret.game_state), StateRows) :
          /\ StateRows[i].runs_scored = 0
          /\ StateRows[i].norm_value = ret.result.thresholds.veryGoodMin
    /\ \E i \in VeryGoodRows(BaseTupleOf(ret.game_state), StateRows) :
          /\ StateRows[i].runs_scored >= 1
          /\ FLt(ret.result.thresholds.veryGoodMin, StateRows[i].norm_value)
    /\ FLt(ret.result.thresholds.veryGoodMin, ret.result.thresholds.veryGoodMax)


\* norm_value passes the 'bad' membership test of the thresholds t
PassesBad(t, norm_value) ==
    FLe(t.badMin, norm_value) /\ FLe(norm_value, t.maxOneOutNoRun)

\* norm_value passes the 'very-bad' membership test of the thresholds t
PassesVeryBad(t, norm_value) ==
    FLe(FFromInt(-1), norm_value) /\ FLe(norm_value, t.maxOutNoRun)

BadWithinVeryBad(rows, t) ==
    /\ FLe(FFromInt(-1), t.badMin)
    /\ FLe(t.maxOneOutNoRun, t.maxOutNoRun)
    /\ \A i \in 1..Len(rows) :
          PassesBad(t, rows[i].norm_value) => PassesVeryBad(t, rows[i].norm_value)

\* C25: for every state, with norm_values in [-1, 1], the 'bad' range lies
\* within the 'very-bad' range: badMin >= -1 and maxOneOutNoRun <= maxOutNoRun,
\* so every outcome that passes the 'bad' test passes the 'very-bad' test.
C25_BadRangeWithinVeryBad ==
    ThresholdsReturned => BadWithinVeryBad(StateRows, ret.result.thresholds)

\* C25 witness: fewer than two outs, a double play below a single out, an
\* outcome that passes the 'bad' test and one that passes 'very-bad' only.
C25_Witness ==
    /\ ThresholdsReturned
    /\ OutsOf(ret.game_state) # 2
    /\ ret.result.thresholds.hasDoublePlay
    /\ \E i \in 1..Len(StateRows) :
          PassesBad(ret.result.thresholds, StateRows[i].norm_value)
    /\ \E i \in 1..Len(StateRows) :
          /\ PassesVeryBad(ret.result.thresholds, StateRows[i].norm_value)
          /\ ~ PassesBad(ret.result.thresholds, StateRows[i].norm_value)

(***************************************************************************)
(* Properties of sync_game_state, stated over its steps: the state before  *)
(* the call is unprimed, the state it leaves and what it returned primed.  *)
(***************************************************************************)
IsSyncStep == ret = Idle /\ ret'.op = "sync_game_state"

\* C21 (as claimed): once the tokens of a game are cached for today's date, a
\* sync_game_state call for the game on that day, its live-price lookup
\* included, makes no request for market data.
C21_CachedTokensAreNotFetchedAgain ==
    [][(IsSyncStep /\ IsCachedFor(cached_tokens, ret'.game_id, strftime(now)))
       => ret'.market_fetches = 0]_vars

\* the ledger a game has, or the one initialize_game_balance would make
LedgerOrNew(balances, game_id) ==
    IF game_id \in DOMAIN balances THEN balances[game_id] ELSE NewLedger

\* the request is a quality selection that may trade: one of the four
\* qualities other than 'neutral', whose expected value came without an error
MayTrade(data, probs, request) ==
    /\ "actionType" \in DOMAIN request
    /\ request.actionType = "QUALITY_CHANGE"
    /\ "playQuality" \in DOMAIN request
    /\ request.playQuality \in {"very-bad", "bad", "good", "very-good"}
    /\ "error" \notin DOMAIN calculate_expected_value_for_quality(
                                 data, probs, request.playQuality,
                                 DictGet(request, "gameState", EmptyDict))

\* C22: sync_game_state alters a ledger only for a QUALITY_CHANGE to very-bad,
\* bad, good or very-good whose expected value came without an error. For any
\* other request the ledger of the game is afterwards what it was, or the
\* initial ledger when the game had none; the ledgers of other games stay.
C22_OnlyQualityChangeTrades ==
    [][IsSyncStep =>
          /\ DOMAIN game_balances' = DOMAIN game_balances \cup {ret'.game_id}
          /\ \A g \in DOMAIN game_balances :
                g # ret'.game_id => game_balances'[g] = game_balances[g]
          /\ ~ MayTrade(play_transition_data, in_play_percentage_data, ret'.request)
                => game_balances'[ret'.game_id]
                   = LedgerOrNew(game_balances, ret'.game_id)]_vars

\* C22 witness: 'neutral' was selected for a game whose expected value comes
\* without an error and whose ledger holds contracts bought before.
C22_Witness ==
    /\ IsCall("sync_game_state")
    /\ IsQualitySelection(ret.request)
    /\ ret.request.playQuality = "neutral"
    /\ "error" \notin DOMAIN calculate_expected_value_for_quality(
                                 play_transition_data, in_play_percentage_data,
                                 "neutral", ret.request.gameState)
    /\ game_balances[ret.game_id].history # <<>>
    /\ ret.trading_result = None

\* the step ran execute_automated_trade, whose result is ret'.trading_result
IsTradeStep == IsSyncStep /\ ret'.trading_result # None

\* the transactions of an executed trade: the buy, after at most one sale, which
\* is the sale of the other side
IsSaleThenBuy(transactions) ==
    /\ Len(transactions) \in {1, 2}
    /\ transactions[Len(transactions)].action = "BUY"
    /\ Len(transactions) = 2
          => /\ transactions[1].action = "SELL"
             /\ transactions[1].team = OtherSide(transactions[2].team)

\* C24: execute_automated_trade is all-or-nothing. When it returns
\* trade_executed == False the ledger of the game is what it was before the call
\* (the initial ledger, when the game had none); the ledger gains transactions
\* only with trade_executed == True, and then a sale of the opposing position
\* comes with the buy it was made for.
C24_RefusedTradeLeavesLedger ==
    [][IsTradeStep =>
          IF ret'.trading_result.trade_executed
          THEN /\ game_balances'[ret'.game_id].history
                  = LedgerOrNew(game_balances, ret'.game_id).history
                    \o ret'.trading_result.transactions
               /\ IsSaleThenBuy(ret'.trading_result.transactions)
          ELSE game_balances'[ret'.game_id]
               = LedgerOrNew(game_balances, ret'.game_id)]_vars

\* C24 witness: a trade was refused for want of balance although the ledger
\* holds contracts of the opposing team, whose sale was worked out first.
C24_Witness ==
    /\ IsCall("sync_game_state")
    /\ ret.trading_result # None
    /\ ~ ret.trading_result.trade_executed
    /\ ret.trading_result.reason = "Insufficient balance after selling"
    /\ ret.trading_result.quality = "very-bad"
    /\ game_balances[ret.game_id].contracts.away > 0

\* the window of the price guard, in minutes, and its threshold of 0.05
GuardWindow == 5

\* the snapshots before the latest that are at least GuardWindow minutes older
OlderSnapshots(snapshots) ==
    { i \in 1..(Len(snapshots) - 1) :
        snapshots[i].timestamp + GuardWindow <= snapshots[Len(snapshots)].timestamp }

\* the most recent of them, else the first snapshot
GuardBaseline(snapshots) ==
    IF OlderSnapshots(snapshots) = {} THEN snapshots[1]
    ELSE snapshots[CHOOSE i \in OlderSnapshots(snapshots) :
                      \A j \in OlderSnapshots(snapshots) : j <= i]

\* |a - b| > 0.05 in float arithmetic
DiffersByMoreThanThreshold(a, b) ==
    \/ FLt(Th(50), FSub(a, b))
    \/ FLt(Th(50), FSub(b, a))

\* the latest home or away price is off the baseline's by more than 0.05
PriceMoved(snapshots) ==
    /\ Len(snapshots) >= 2
    /\ \/ DiffersByMoreThanThreshold(snapshots[Len(snapshots)].home_price,
                                     GuardBaseline(snapshots).home_price)
       \/ DiffersByMoreThanThreshold(snapshots[Len(snapshots)].away_price,
                                     GuardBaseline(snapshots).away_price)

\* the result of a trade refused for the price movement
IsRefusedForPrice(result) ==
    ~ result.trade_executed /\ result.reason = "Price moved too much"

\* the step ran execute_automated_trade up to its new snapshot
IsSnapshotTradeStep ==
    /\ IsTradeStep
    /\ SnapshotCount(contract_price_snapshots', ret'.game_id)
       = SnapshotCount(contract_price_snapshots, ret'.game_id) + 1

\* C23: after its new snapshot execute_automated_trade refuses the trade for
\* the price movement exactly when the game has at least two snapshots and the
\* latest home or away price differs by more than 0.05 from the baseline, the
\* most recent earlier snapshot at least 5 minutes older than the latest, else
\* the first; the refusal leaves the ledger alone, and with fewer than two
\* snapshots the guard does not block.
C23_PriceGuardBlocksTrade ==
    [][IsSnapshotTradeStep =>
          IF PriceMoved(contract_price_snapshots'[ret'.game_id])
          THEN /\ IsRefusedForPrice(ret'.trading_result)
               /\ game_balances'[ret'.game_id]
                  = LedgerOrNew(game_balances, ret'.game_id)
          ELSE ~ IsRefusedForPrice(ret'.trading_result)]_vars

\* C23 witness: the guard refused a trade on three snapshots, its baseline the
\* second, which is 5 minutes older than the latest and differs from the first.
C23_Witness ==
    /\ IsCall("sync_game_state")
    /\ ret.trading_result # None
    /\ IsRefusedForPrice(ret.trading_result)
    /\ Len(contract_price_snapshots[ret.game_id]) = 3
    /\ GuardBaseline(contract_price_snapshots[ret.game_id])
       = contract_price_snapshots[ret.game_id][2]
    /\ contract_price_snapshots[ret.game_id][2].home_price
       # contract_price_snapshots[ret.game_id][1].home_price

====
